---- MODULE Spec2Model ----
(***************************************************************************)
(* Model of zotero-comfort: the Reference-Manager client's write paths     *)
(* against the versioned remote library (client.py), the External-to-      *)
(* Library bridge (workflows_external.py) and the institutional-database   *)
(* team fetch (external/charite.py).                                       *)
(*                                                                         *)
(* A call is one action: it runs the whole handler against the remote      *)
(* library and leaves the returned value in `result` and the mutating      *)
(* requests it sent in `requests`; Return hands the value to the caller.   *)
(* The outcome of every remote round trip is an input of the call.         *)
(***************************************************************************)
EXTENDS Integers, Sequences, FiniteSets, TLC

VARIABLES
    collections,      \* remote library: sequence of [key, name, version]
    items,            \* remote library: sequence of [collections, version, paper]; the item key is the index
    library_version,  \* remote library: last-modified version of the library
    collection_keys,  \* remote library: number of collection keys assigned so far
    uuid_count,       \* number of uuid.uuid4() values drawn by the client
    tokens_sent,      \* every Zotero-Write-Token header value sent so far, in order
    requests,         \* the mutating HTTP requests sent by the call in `result`
    before,           \* the library as it was when the call in `result` started
    result,           \* the value returned by the last call (op = "none": consumed)
    history,          \* digest of the import completed last, when all its remote calls succeeded
    calls,            \* number of calls made so far
    team_result,      \* the outcome of the last fetch_team call
    discovery,        \* the discover_tokens call in progress or finished
    writers,          \* the membership writes in progress, one per concurrent caller
    router,           \* the DualLibraryClient of the process
    callers           \* per caller: the router call it has in flight or completed

vars == <<collections, items, library_version, collection_keys, uuid_count,
          tokens_sent, requests, before, result, history, calls, team_result, discovery, writers,
          router, callers>>

\* ---------------------------------------------------------------- bounds
MaxCalls == 2
MaxKeys == 2

Names == {"PROMs", "FHIR"}

\* ---------------------------------------------------------------- helpers
InSeq(x, s) == \E i \in 1..Len(s) : s[i] = x

SeqsUpTo(S, n) == UNION {[1..k -> S] : k \in 0..n}

NoResult == [op |-> "none"]
NoStore == [collections |-> <<>>, items |-> <<>>]

\* ------------------------------------------------- the remote library
Store == [collections |-> collections, items |-> items,
          version |-> library_version, keys |-> collection_keys]

\* Another user of the shared library modifies the item between this client's
\* read and its write: the item gets a newer version.
concurrent_write(st, item_key) ==
    [st EXCEPT !.version = @ + 1,
               !.items[item_key].version = st.version + 1]

\* A library that applies a PATCH whatever the version guard says.
patch_item_unguarded(st, item_key, body, if_unmodified, outcome) ==
    LET accepted == outcome # "network" /\ item_key \in 1..Len(st.items)
    IN  [accepted |-> accepted,
         st |-> IF accepted
                THEN [st EXCEPT !.version = @ + 1,
                                !.items[item_key].version = st.version + 1,
                                !.items[item_key].collections =
                                    IF body.has_collections THEN body.collections ELSE @]
                ELSE st]

\* PATCH <prefix>/items/<key> with If-Unmodified-Since-Version: the library
\* applies the body only when the guard is the item's current version
\* (otherwise 412 Precondition Failed); a network failure reaches nothing.
patch_item(st, item_key, body, if_unmodified, outcome) ==
    LET st1 == IF outcome = "stale" /\ item_key \in 1..Len(st.items)
               THEN concurrent_write(st, item_key) ELSE st
        accepted == /\ outcome # "network"
                    /\ item_key \in 1..Len(st1.items)
                    /\ if_unmodified = st1.items[item_key].version
    IN  [accepted |-> accepted,
         st |-> IF accepted
                THEN [st1 EXCEPT !.version = @ + 1,
                                 !.items[item_key].version = st1.version + 1,
                                 !.items[item_key].collections =
                                     IF body.has_collections THEN body.collections ELSE @]
                ELSE st1]

\* ------------------------------------------------- ZoteroMCPClient
uuid4(n) == n + 1

api_headers_no_token(write_token) == [write_token |-> 0]

\* _api_headers: the Zotero-Write-Token header is set only when a token is
\* passed (0: the header is absent).
api_headers(write_token) == [write_token |-> write_token]

\* get_item: the tool result; an "error" key on any tool-level failure.
get_item(st, item_key, outcome) ==
    IF outcome = "refetch_error" \/ item_key \notin 1..Len(st.items)
    THEN [error |-> TRUE, collections |-> <<>>, version |-> 0]
    ELSE [error |-> FALSE,
          collections |-> st.items[item_key].collections,
          version |-> st.items[item_key].version]

version_guard_zero(item) == 0

\* version = item.get("version", 0)
version_guard(item) == item.version

Request(method, path, key, token, guard, refetched, entry, accepted) ==
    [method |-> method, path |-> path, key |-> key, write_token |-> token,
     if_unmodified |-> guard, refetched |-> refetched, entry |-> entry,
     accepted |-> accepted]

Detail(item_key, status) == [item_key |-> item_key, status |-> status]

add_one_item_no_detail(acc, collection_key, item_key, outcome, entry) ==
    LET item == get_item(acc.st, item_key, outcome)
    IN  IF item.error
        THEN [acc EXCEPT !.failed = @ + 1]
        ELSE IF InSeq(collection_key, item.collections)
        THEN [acc EXCEPT !.details = Append(@, Detail(item_key, "already_in_collection"))]
        ELSE LET version == item.version
                 resp == patch_item(acc.st, item_key,
                                    [has_collections |-> TRUE,
                                     collections |-> Append(item.collections, collection_key)],
                                    version, outcome)
                 req == Request("PATCH", "items", item_key, 0, version, item.version,
                                entry, resp.accepted)
             IN  [acc EXCEPT !.st = resp.st,
                             !.requests = Append(@, req),
                             !.added = IF resp.accepted THEN @ + 1 ELSE @,
                             !.failed = IF resp.accepted THEN @ ELSE @ + 1,
                             !.details = Append(@, Detail(item_key,
                                 IF resp.accepted THEN "added" ELSE "error"))]

\* The body of the loop of add_items_to_collection for one entry of item_keys.
add_one_item(acc, collection_key, item_key, outcome, entry) ==
    LET item == get_item(acc.st, item_key, outcome)
    IN  IF item.error
        THEN [acc EXCEPT !.failed = @ + 1,
                         !.details = Append(@, Detail(item_key, "error"))]
        ELSE IF InSeq(collection_key, item.collections)
        THEN [acc EXCEPT !.details = Append(@, Detail(item_key, "already_in_collection"))]
        ELSE LET updated_collections == Append(item.collections, collection_key)
                 version == version_guard(item)
                 headers == api_headers(0)
                 resp == patch_item(acc.st, item_key,
                                    [has_collections |-> TRUE, collections |-> updated_collections],
                                    version, outcome)
                 req == Request("PATCH", "items", item_key, headers.write_token,
                                version, item.version, entry, resp.accepted)
             IN  IF resp.accepted
                 THEN [acc EXCEPT !.st = resp.st,
                                  !.requests = Append(@, req),
                                  !.added = @ + 1,
                                  !.details = Append(@, Detail(item_key, "added"))]
                 ELSE [acc EXCEPT !.st = resp.st,
                                  !.requests = Append(@, req),
                                  !.failed = @ + 1,
                                  !.details = Append(@, Detail(item_key, "error"))]

RECURSIVE add_items_loop(_, _, _, _, _)
add_items_loop(acc, collection_key, item_keys, outcomes, i) ==
    IF i > Len(item_keys) THEN acc
    ELSE add_items_loop(add_one_item(acc, collection_key, item_keys[i], outcomes[i], i),
                        collection_key, item_keys, outcomes, i + 1)

overall_status_partial(added, failed) ==
    IF failed > 0 THEN "partial" ELSE "success"

\* if results["failed"] > 0: "partial" if results["added"] > 0 else "error"
overall_status(added, failed) ==
    IF failed > 0 THEN (IF added > 0 THEN "partial" ELSE "error") ELSE "success"

\* add_items_to_collection: the returned record, the library afterwards and
\* the requests sent.
add_items_to_collection(st, collection_key, item_keys, outcomes) ==
    LET acc == add_items_loop([st |-> st, added |-> 0, failed |-> 0,
                               details |-> <<>>, requests |-> <<>>],
                              collection_key, item_keys, outcomes, 1)
    IN  [st |-> acc.st,
         requests |-> acc.requests,
         results |-> [status |-> overall_status(acc.added, acc.failed),
                      added |-> acc.added, failed |-> acc.failed,
                      details |-> acc.details]]

\* create_collection: POST <prefix>/collections with a fresh write token.
create_collection(st, name, uuid, outcome) ==
    LET write_token == uuid4(uuid)
        headers == api_headers(write_token)
        created == outcome = "ok"
        key == st.keys + 1
        req == Request("POST", "collections", 0, headers.write_token, -1, -1, 1, created)
    IN  [st |-> IF created
                THEN [st EXCEPT !.version = @ + 1, !.keys = key,
                                !.collections = Append(@, [key |-> key, name |-> name,
                                                           version |-> st.version + 1])]
                ELSE st,
         requests |-> <<req>>,
         uuid |-> write_token,
         results |-> IF created
                     THEN [status |-> "success", key |-> key]
                     ELSE [status |-> "error", key |-> 0]]

\* add_item: POST <prefix>/items with a fresh write token; every call creates
\* a new item.
add_item(st, item_data, uuid, outcome) ==
    LET write_token == uuid4(uuid)
        headers == api_headers(write_token)
        created == outcome = "ok"
        key == Len(st.items) + 1
        req == Request("POST", "items", 0, headers.write_token, -1, -1, 1, created)
    IN  [st |-> IF created
                THEN [st EXCEPT !.version = @ + 1,
                                !.items = Append(@, [collections |-> <<>>,
                                                     version |-> st.version + 1,
                                                     paper |-> item_data])]
                ELSE st,
         requests |-> <<req>>,
         uuid |-> write_token,
         results |-> IF created
                     THEN [status |-> "success", key |-> key]
                     ELSE [status |-> "error", key |-> 0]]

\* remove_item_from_collection: refetch, then one versioned PATCH of the
\* membership without collection_key.
remove_item_from_collection(st, collection_key, item_key, outcome) ==
    LET item == get_item(st, item_key, outcome)
    IN  IF item.error
        THEN [st |-> st, requests |-> <<>>, results |-> [status |-> "error", written |-> FALSE]]
        ELSE IF ~InSeq(collection_key, item.collections)
        THEN [st |-> st, requests |-> <<>>, results |-> [status |-> "success", written |-> FALSE]]
        ELSE LET updated_collections == SelectSeq(item.collections, LAMBDA c : c # collection_key)
                 version == version_guard(item)
                 headers == api_headers(0)
                 resp == patch_item(st, item_key,
                                    [has_collections |-> TRUE, collections |-> updated_collections],
                                    version, outcome)
                 req == Request("PATCH", "items", item_key, headers.write_token,
                                version, item.version, 1, resp.accepted)
             IN  [st |-> resp.st, requests |-> <<req>>,
                  results |-> [status |-> IF resp.accepted THEN "success" ELSE "error",
                               written |-> resp.accepted]]

\* update_item: refetch, then one versioned PATCH of the updated fields.
update_item(st, item_key, outcome) ==
    LET item == get_item(st, item_key, outcome)
    IN  IF item.error
        THEN [st |-> st, requests |-> <<>>, results |-> [status |-> "error", written |-> FALSE]]
        ELSE LET version == version_guard(item)
                 headers == api_headers(0)
                 resp == patch_item(st, item_key,
                                    [has_collections |-> FALSE, collections |-> <<>>],
                                    version, outcome)
                 req == Request("PATCH", "items", item_key, headers.write_token,
                                version, item.version, 1, resp.accepted)
             IN  [st |-> resp.st, requests |-> <<req>>,
                  results |-> [status |-> IF resp.accepted THEN "success" ELSE "error",
                               written |-> resp.accepted]]

CollectionIndex(st, collection_key) ==
    {i \in 1..Len(st.collections) : st.collections[i].key = collection_key}

RemoveAt(s, i) == [j \in 1..(Len(s) - 1) |-> IF j < i THEN s[j] ELSE s[j + 1]]

\* delete_collection: GET the collection for its Last-Modified-Version, then
\* DELETE guarded by that version; the items stay in the library.
delete_collection(st, collection_key, outcome) ==
    LET found == CollectionIndex(st, collection_key)
    IN  IF outcome = "refetch_error" \/ found = {}
        THEN [st |-> st, requests |-> <<>>, results |-> [status |-> "error", written |-> FALSE]]
        ELSE LET i == CHOOSE j \in found : TRUE
                 version == st.collections[i].version
                 headers == api_headers(0)
                 st1 == IF outcome = "stale"
                        THEN [st EXCEPT !.version = @ + 1,
                                        !.collections[i].version = st.version + 1]
                        ELSE st
                 accepted == outcome # "network" /\ version = st1.collections[i].version
                 req == Request("DELETE", "collections", collection_key, headers.write_token,
                                version, version, 1, accepted)
             IN  [st |-> IF accepted
                         THEN [st1 EXCEPT !.version = @ + 1,
                                          !.collections = RemoveAt(@, i)]
                         ELSE st1,
                  requests |-> <<req>>,
                  results |-> [status |-> IF accepted THEN "success" ELSE "error",
                               written |-> accepted]]

\* ------------------------------------------------- calls of the client
WriteOutcomes == {"ok", "refetch_error", "stale", "network"}
CreateOutcomes == {"ok", "http_error", "unexpected"}

CollectionKeys == {collections[i].key : i \in 1..Len(collections)}
ItemKeyInputs == 1..(Len(items) + 1)

Tokens(reqs) == SelectSeq([i \in 1..Len(reqs) |-> reqs[i].write_token], LAMBDA t : t # 0)

Idle == result.op = "none" /\ calls < MaxCalls

\* The effect of one completed call on the model's variables.
Finish(op, args, r, uuid) ==
    /\ collections' = r.st.collections
    /\ items' = r.st.items
    /\ library_version' = r.st.version
    /\ collection_keys' = r.st.keys
    /\ uuid_count' = uuid
    /\ tokens_sent' = tokens_sent \o Tokens(r.requests)
    /\ requests' = r.requests
    /\ before' = [collections |-> collections, items |-> items]
    /\ result' = [op |-> op, args |-> args, ret |-> r.results]
    /\ calls' = calls + 1

\* The effect of a call that ended with an exception before it sent any
\* request to the library: the caller gets no value.
Raise(op, args, error) ==
    /\ result' = [op |-> "raised", handler |-> op, args |-> args, error |-> error]
    /\ requests' = <<>>
    /\ before' = [collections |-> collections, items |-> items]
    /\ calls' = calls + 1
    /\ UNCHANGED <<collections, items, library_version, collection_keys, uuid_count,
                   tokens_sent>>

CreateCollection ==
    /\ Idle
    /\ \E name \in Names, outcome \in CreateOutcomes :
          LET r == create_collection(Store, name, uuid_count, outcome)
          IN  Finish("create_collection", [name |-> name, outcome |-> outcome], r, r.uuid)
    /\ UNCHANGED <<history, team_result, discovery, writers, router, callers>>

AddItem ==
    /\ Idle
    /\ \E outcome \in CreateOutcomes :
          LET r == add_item(Store, [source |-> "manual", id |-> 0], uuid_count, outcome)
          IN  Finish("add_item", [outcome |-> outcome], r, r.uuid)
    /\ UNCHANGED <<history, team_result, discovery, writers, router, callers>>

AddItemsToCollection ==
    /\ Idle
    /\ \E collection_key \in CollectionKeys, item_keys \in SeqsUpTo(ItemKeyInputs, MaxKeys) :
          \E outcomes \in [1..Len(item_keys) -> WriteOutcomes] :
             LET r == add_items_to_collection(Store, collection_key, item_keys, outcomes)
             IN  Finish("add_items_to_collection",
                        [collection_key |-> collection_key, item_keys |-> item_keys,
                         outcomes |-> outcomes], r, uuid_count)
    /\ UNCHANGED <<history, team_result, discovery, writers, router, callers>>

RemoveItemFromCollection ==
    /\ Idle
    /\ \E collection_key \in CollectionKeys, item_key \in ItemKeyInputs, outcome \in WriteOutcomes :
          LET r == remove_item_from_collection(Store, collection_key, item_key, outcome)
          IN  Finish("remove_item_from_collection",
                     [collection_key |-> collection_key, item_keys |-> <<item_key>>,
                      outcomes |-> <<outcome>>], r, uuid_count)
    /\ UNCHANGED <<history, team_result, discovery, writers, router, callers>>

UpdateItem ==
    /\ Idle
    /\ \E item_key \in ItemKeyInputs, outcome \in WriteOutcomes :
          LET r == update_item(Store, item_key, outcome)
          IN  Finish("update_item",
                     [collection_key |-> 0, item_keys |-> <<item_key>>,
                      outcomes |-> <<outcome>>], r, uuid_count)
    /\ UNCHANGED <<history, team_result, discovery, writers, router, callers>>

DeleteCollection ==
    /\ Idle
    /\ \E collection_key \in 1..collection_keys, outcome \in WriteOutcomes :
          LET r == delete_collection(Store, collection_key, outcome)
          IN  Finish("delete_collection",
                     [collection_key |-> collection_key, outcome |-> outcome], r, uuid_count)
    /\ UNCHANGED <<history, team_result, discovery, writers, router, callers>>

\* ------------------------------------------------- ExternalWorkflows
MaxResults == 2
MaxSources == 2

SourceNames == {"pubmed", "arxiv", "scholar"}

\* list_collections: the collections of the library, or [] on a tool error.
list_collections(st, outcome) ==
    IF outcome = "error" THEN <<>> ELSE st.collections

find_collection_never(colls, collection_name) == 0

\* The first listed collection whose name is collection_name (0: None).
find_collection(colls, collection_name) ==
    LET hits == {i \in 1..Len(colls) : colls[i].name = collection_name}
    IN  IF hits = {} THEN 0
        ELSE colls[CHOOSE i \in hits : \A j \in hits : i <= j].key

should_create_always(collection_key, create_collection_flag) == collection_key = 0

\* if not collection_key and create_collection
should_create(collection_key, create_collection_flag) ==
    collection_key = 0 /\ create_collection_flag

\* _paper_to_zotero_item: the write schema of a found paper; the origin goes
\* into the free-text "extra" field.
paper_to_zotero_item(paper, source) ==
    [source |-> source, id |-> paper]

import_one_paper_stop_on_failure(acc, paper, source, outcome, i) ==
    LET r == add_item(acc.st, paper_to_zotero_item(paper, source), acc.uuid, outcome)
        req == [r.requests[1] EXCEPT !.entry = i]
        failed_before == \E k \in 1..Len(acc.requests) :
                            acc.requests[k].path = "items" /\ ~acc.requests[k].accepted
    IN  IF failed_before THEN acc
        ELSE IF r.results.status = "success"
        THEN [acc EXCEPT !.st = r.st, !.uuid = r.uuid,
                         !.requests = Append(@, req),
                         !.items_added = Append(@, r.results.key),
                         !.by_source = IF source \in DOMAIN @
                                       THEN [@ EXCEPT ![source] = Append(@, r.results.key)]
                                       ELSE @]
        ELSE [acc EXCEPT !.st = r.st, !.uuid = r.uuid,
                         !.requests = Append(@, req)]

\* The body of the import loop for the i-th found paper.
import_one_paper(acc, paper, source, outcome, i) ==
    LET r == add_item(acc.st, paper_to_zotero_item(paper, source), acc.uuid, outcome)
        req == [r.requests[1] EXCEPT !.entry = i]
    IN  IF r.results.status = "success"
        THEN [acc EXCEPT !.st = r.st, !.uuid = r.uuid,
                         !.requests = Append(@, req),
                         !.items_added = Append(@, r.results.key),
                         !.by_source = IF source \in DOMAIN @
                                       THEN [@ EXCEPT ![source] = Append(@, r.results.key)]
                                       ELSE @]
        ELSE [acc EXCEPT !.st = r.st, !.uuid = r.uuid,
                         !.requests = Append(@, req)]

RECURSIVE import_loop(_, _, _, _)
import_loop(acc, all_papers, outcomes, i) ==
    IF i > Len(all_papers) THEN acc
    ELSE import_loop(import_one_paper(acc, all_papers[i].paper, all_papers[i].source,
                                      outcomes[i], i),
                     all_papers, outcomes, i + 1)

\* Steps 2-4 shared by the three importers: find or create the collection,
\* create one item per paper, attach the created items.  `outs` holds the
\* outcome of every remote round trip.
file_papers(st, uuid, all_papers, collection_name, create_collection_flag, sources, outs) ==
    LET listed == list_collections(st, outs.list)
        existing == find_collection(listed, collection_name)
        creating == should_create(existing, create_collection_flag)
        made == create_collection(st, collection_name, uuid, outs.create)
        st1 == IF creating THEN made.st ELSE st
        uuid1 == IF creating THEN made.uuid ELSE uuid
        reqs1 == IF creating THEN made.requests ELSE <<>>
        collection_key == IF creating THEN made.results.key ELSE existing
    IN  IF collection_key = 0
        THEN [st |-> st1, uuid |-> uuid1, requests |-> reqs1, created |-> creating,
              results |-> [status |-> "error", papers_found |-> Len(all_papers),
                           papers_added |-> 0, collection_key |-> 0,
                           items_added |-> <<>>, by_source |-> <<>>]]
        ELSE LET acc == import_loop([st |-> st1, uuid |-> uuid1, requests |-> reqs1,
                                     items_added |-> <<>>,
                                     by_source |-> [src \in sources |-> <<>>]],
                                    all_papers, outs.add, 1)
                 attach == add_items_to_collection(acc.st, collection_key, acc.items_added,
                                                   outs.attach)
                 attached == acc.items_added # <<>>
             IN  [st |-> IF attached THEN attach.st ELSE acc.st,
                  uuid |-> acc.uuid,
                  requests |-> IF attached THEN acc.requests \o attach.requests
                               ELSE acc.requests,
                  created |-> creating,
                  results |-> [status |-> "success", papers_found |-> Len(all_papers),
                               papers_added |-> Len(acc.items_added),
                               collection_key |-> collection_key,
                               items_added |-> acc.items_added,
                               by_source |-> acc.by_source]]

\* The papers a source returns for the query: the same list on every search.
search_results(source, n) == [i \in 1..n |-> [paper |-> i, source |-> source]]

\* search_pubmed_to_collection / search_arxiv_to_collection
search_to_collection(st, uuid, source, n, collection_name, create_collection_flag, outs) ==
    file_papers(st, uuid, search_results(source, n), collection_name,
                create_collection_flag, {source}, outs)

\* The body of the search loop of search_multi_source_to_collection: a known
\* source is searched, its count stored under its name and its papers tagged.
search_one_source(acc, source, n) ==
    IF source \in {"pubmed", "arxiv"}
    THEN [all_papers |-> acc.all_papers \o search_results(source, n),
          source_counts |-> [s \in DOMAIN acc.source_counts \cup {source} |->
                               IF s = source THEN n ELSE acc.source_counts[s]]]
    ELSE acc

RECURSIVE search_sources(_, _, _, _)
search_sources(acc, sources, found, i) ==
    IF i > Len(sources) THEN acc
    ELSE search_sources(search_one_source(acc, sources[i], found[i]), sources, found, i + 1)

\* search_multi_source_to_collection
search_multi_source_to_collection(st, uuid, sources, found, collection_name, create_collection_flag, outs) ==
    LET searched == search_sources([all_papers |-> <<>>, source_counts |-> <<>>],
                                   sources, found, 1)
        r == file_papers(st, uuid, searched.all_papers, collection_name,
                         create_collection_flag, {sources[i] : i \in 1..Len(sources)}, outs)
    IN  [r EXCEPT !.results = [status |-> r.results.status,
                               papers_found |-> r.results.papers_found,
                               papers_added |-> r.results.papers_added,
                               collection_key |-> r.results.collection_key,
                               items_added |-> r.results.items_added,
                               by_source |-> r.results.by_source,
                               source_counts |-> searched.source_counts,
                               all_papers |-> searched.all_papers]]

\* PubMedClient.search_articles / ArXivClient.search: the remote search runs
\* outside any try block, so a network or HTTP failure leaves the adapter as
\* an exception; otherwise the adapter returns the papers found.
search_articles(source, n, outcome) ==
    IF outcome = "ok"
    THEN [raised |-> FALSE, papers |-> search_results(source, n)]
    ELSE [raised |-> TRUE, papers |-> <<>>]

\* The first search of the loop that raises (0: none does).  Only the known
\* sources are searched.
first_failed_search(sources, found, searches) ==
    LET failing == {i \in 1..Len(sources) :
                      /\ sources[i] \in {"pubmed", "arxiv"}
                      /\ search_articles(sources[i], found[i], searches[i]).raised}
    IN  IF failing = {} THEN 0 ELSE CHOOSE i \in failing : \A j \in failing : i <= j

\* ------------------------------------------------- calls of the bridge
ImportOps == {"search_to_collection", "search_multi_source_to_collection"}
AddOutcomes == {"ok", "http_error"}
AttachOutcomes == {"ok", "stale"}

NamedCollections(colls, name) == {i \in 1..Len(colls) : colls[i].name = name}

Filed(its, collection_key) ==
    {k \in 1..Len(its) : InSeq(collection_key, its[k].collections)}

AllOk(s) == \A i \in 1..Len(s) : s[i] = "ok"

Oks(s) == Cardinality({i \in 1..Len(s) : s[i] = "ok"})

\* The outcomes of the round trips an import makes: the listing, the create
\* (when one is made), one per add_item and one per attached item.
Outcomes(n, collection_name, create_collection_flag) ==
    UNION { UNION { UNION {
        [list : {l}, create : {c}, add : {a},
         attach : [1..(IF find_collection(list_collections(Store, l), collection_name) # 0
                          \/ (should_create(0, create_collection_flag) /\ c = "ok")
                       THEN Oks(a) ELSE 0) -> AttachOutcomes]]
        : a \in IF find_collection(list_collections(Store, l), collection_name) # 0
                   \/ (should_create(0, create_collection_flag) /\ c = "ok")
                THEN [1..n -> AddOutcomes] ELSE {[i \in 1..n |-> "ok"]} }
        : c \in IF should_create(find_collection(list_collections(Store, l), collection_name),
                                 create_collection_flag)
                THEN {"ok", "http_error"} ELSE {"ok"} }
        : l \in {"ok", "error"} }

NoDigest == [clean |-> FALSE]

\* What a later run is compared with: the arguments of a completed import
\* whose remote calls all succeeded, and the library it left.
Digest ==
    IF /\ result.op \in ImportOps
       /\ result.ret.status = "success"
       /\ result.args.outs.list = "ok" /\ result.args.outs.create = "ok"
       /\ AllOk(result.args.outs.add) /\ AllOk(result.args.outs.attach)
    THEN [clean |-> TRUE, op |-> result.op, sources |-> result.args.sources,
          found |-> result.args.found, collection_name |-> result.args.collection_name,
          collection_key |-> result.ret.collection_key,
          n_items |-> Len(items), n_collections |-> Len(collections),
          n_named |-> Cardinality(NamedCollections(collections, result.args.collection_name)),
          n_filed |-> Cardinality(Filed(items, result.ret.collection_key))]
    ELSE NoDigest

SearchOutcomes == {"ok", "network"}

SearchToCollection(source) ==
    /\ Idle
    /\ \/ \E n \in 0..MaxResults, collection_name \in Names, create_collection_flag \in BOOLEAN :
             \E outs \in Outcomes(n, collection_name, create_collection_flag) :
                LET r == search_to_collection(Store, uuid_count, source, n, collection_name,
                                              create_collection_flag, outs)
                IN  Finish("search_to_collection",
                           [sources |-> <<source>>, found |-> <<n>>, searches |-> <<"ok">>,
                            collection_name |-> collection_name,
                            create_collection |-> create_collection_flag, outs |-> outs],
                           r, r.uuid)
       \/ \E collection_name \in Names, create_collection_flag \in BOOLEAN,
               outcome \in SearchOutcomes \ {"ok"} :
             /\ search_articles(source, 0, outcome).raised
             /\ Raise("search_to_collection",
                      [sources |-> <<source>>, found |-> <<0>>, searches |-> <<outcome>>,
                       collection_name |-> collection_name,
                       create_collection |-> create_collection_flag],
                      [search |-> 1])
    /\ UNCHANGED <<history, team_result, discovery, writers, router, callers>>

SearchPubmedToCollection == SearchToCollection("pubmed")

SearchArxivToCollection == SearchToCollection("arxiv")

RECURSIVE Sum(_)
Sum(s) == IF s = <<>> THEN 0 ELSE Head(s) + Sum(Tail(s))

\* One call of search_multi_source_to_collection with its source list drawn
\* from SourceLists.
MultiSource(SourceLists) ==
    /\ Idle
    /\ \E sources \in SourceLists, collection_name \in Names,
          create_collection_flag \in BOOLEAN :
          \E found \in [1..Len(sources) -> 0..MaxResults],
             searches \in [1..Len(sources) -> SearchOutcomes] :
             /\ \A i \in 1..Len(sources) :
                   /\ sources[i] = "scholar" => found[i] = 0 /\ searches[i] = "ok"
                   /\ searches[i] # "ok" => found[i] = 0
             /\ Sum(found) <= MaxResults
             /\ LET failed == first_failed_search(sources, found, searches)
                IN  IF failed = 0
                    THEN \E outs \in Outcomes(Sum(found), collection_name,
                                              create_collection_flag) :
                           LET r == search_multi_source_to_collection(Store, uuid_count,
                                        sources, found, collection_name,
                                        create_collection_flag, outs)
                           IN  Finish("search_multi_source_to_collection",
                                      [sources |-> sources, found |-> found,
                                       searches |-> searches,
                                       collection_name |-> collection_name,
                                       create_collection |-> create_collection_flag,
                                       outs |-> outs],
                                      r, r.uuid)
                    ELSE Raise("search_multi_source_to_collection",
                               [sources |-> sources, found |-> found, searches |-> searches,
                                collection_name |-> collection_name,
                                create_collection |-> create_collection_flag],
                               [search |-> failed])
    /\ UNCHANGED <<history, team_result, discovery, writers, router, callers>>

\* sources: List[...] = ["pubmed", "arxiv"]
DefaultSources == <<"pubmed", "arxiv">>

SearchMultiSourceToCollection == MultiSource({DefaultSources})

SearchMultiSourceAnySources == MultiSource(SeqsUpTo(SourceNames, MaxSources))

\* The caller takes the returned value.
Return ==
    /\ result.op # "none"
    /\ result' = NoResult
    /\ requests' = <<>>
    /\ before' = NoStore
    /\ history' = Digest
    /\ UNCHANGED <<collections, items, library_version, collection_keys, uuid_count,
                   tokens_sent, calls, team_result, discovery, writers, router, callers>>

\* ------------------------------------------------- ChariteClient
MaxMembers == 3

\* The roster: surname and API token (0: the member has no token).
CEIR_TEAM == <<[surname |-> "Thun", token |-> 1],
               [surname |-> "Bartschke", token |-> 2],
               [surname |-> "Chahabadi", token |-> 0]>>

Members == {CEIR_TEAM[i] : i \in 1..Len(CEIR_TEAM)}

\* Raw entries of the publications endpoint: "titel" and the url of the DOI
\* link ("": none).
RawEntries == {[titel |-> "Deep Learning.", doi |-> "https://doi.org/10.1/A"],
               [titel |-> "deep-learning", doi |-> ""],
               [titel |-> "FHIR", doi |-> "10.1/a"],
               [titel |-> "FHIR", doi |-> "10.3/c"],
               [titel |-> "", doi |-> "10.2/b"]}

\* title.strip().rstrip(".")
strip_title(titel) == IF titel = "Deep Learning." THEN "Deep Learning" ELSE titel

\* re.sub(r"^https?://(dx\.)?doi\.org/", "", url)
strip_doi_url(url) == IF url = "https://doi.org/10.1/A" THEN "10.1/A" ELSE url

\* doi.lower().strip()
doi_key(doi) == IF doi = "10.1/A" THEN "10.1/a" ELSE doi

\* re.sub(r"[^a-z0-9]", "", title.lower())[:50]
title_key(title) ==
    CASE title = "Deep Learning" -> "deeplearning"
      [] title = "deep-learning" -> "deeplearning"
      [] title = "FHIR" -> "fhir"
      [] OTHER -> ""

\* _normalize_publication: None (here <<>>) for an entry without a title.
normalize_publication(entry) ==
    IF entry.titel = "" THEN <<>>
    ELSE <<[title |-> strip_title(entry.titel), doi |-> strip_doi_url(entry.doi)]>>

RECURSIVE normalize_all(_)
normalize_all(raw_pubs) ==
    IF raw_pubs = <<>> THEN <<>>
    ELSE normalize_publication(Head(raw_pubs)) \o normalize_all(Tail(raw_pubs))

\* fetch_publications: httpx.HTTPError (a timeout, a non-2xx status) is caught
\* and gives []; resp.json() is outside the try block.
fetch_publications(response) ==
    CASE response.kind \in {"timeout", "status"} -> [raised |-> FALSE, pubs |-> <<>>]
      [] response.kind = "malformed" -> [raised |-> TRUE, pubs |-> <<>>]
      [] OTHER -> [raised |-> FALSE, pubs |-> normalize_all(response.publikationen)]

\* The body of the loop of _deduplicate without seen_titles.add.
dedup_one_titles_unseen(acc, pub) ==
    LET has_doi == pub.doi # ""
        key == title_key(pub.title)
    IN  IF has_doi /\ doi_key(pub.doi) \in acc.seen_dois THEN acc
        ELSE LET dois == IF has_doi THEN acc.seen_dois \cup {doi_key(pub.doi)}
                         ELSE acc.seen_dois
             IN  IF key # "" /\ key \in acc.seen_titles
                 THEN [acc EXCEPT !.seen_dois = dois]
                 ELSE [seen_dois |-> dois,
                       seen_titles |-> acc.seen_titles,
                       unique |-> Append(acc.unique, pub)]

\* The body of the loop of _deduplicate.
dedup_one(acc, pub) ==
    LET has_doi == pub.doi # ""
        key == title_key(pub.title)
    IN  IF has_doi /\ doi_key(pub.doi) \in acc.seen_dois THEN acc
        ELSE LET dois == IF has_doi THEN acc.seen_dois \cup {doi_key(pub.doi)}
                         ELSE acc.seen_dois
             IN  IF key # "" /\ key \in acc.seen_titles
                 THEN [acc EXCEPT !.seen_dois = dois]
                 ELSE [seen_dois |-> dois,
                       seen_titles |-> IF key # "" THEN acc.seen_titles \cup {key}
                                       ELSE acc.seen_titles,
                       unique |-> Append(acc.unique, pub)]

RECURSIVE dedup_loop(_, _)
dedup_loop(acc, publications) ==
    IF publications = <<>> THEN acc
    ELSE dedup_loop(dedup_one(acc, Head(publications)), Tail(publications))

\* _deduplicate
deduplicate(publications) ==
    dedup_loop([seen_dois |-> {}, seen_titles |-> {}, unique |-> <<>>], publications).unique

fetchable_members(members) == SelectSeq(members, LAMBDA m : m.token # 0)

RECURSIVE fetch_team_loop(_, _, _, _)
fetch_team_loop(acc, fetchable, responses, i) ==
    IF i > Len(fetchable) \/ acc.raised THEN acc
    ELSE LET r == fetch_publications(responses[i])
         IN  fetch_team_loop([raised |-> r.raised,
                              fetched |-> Append(acc.fetched, fetchable[i].token),
                              all_pubs |-> acc.all_pubs \o r.pubs],
                             fetchable, responses, i + 1)

\* fetch_team: `raised` when an exception leaves the call.
fetch_team(members, responses) ==
    LET roster == IF members = <<>> THEN CEIR_TEAM ELSE members
        acc == fetch_team_loop([raised |-> FALSE, fetched |-> <<>>, all_pubs |-> <<>>],
                               fetchable_members(roster), responses, 1)
    IN  [raised |-> acc.raised, fetched |-> acc.fetched, all_pubs |-> acc.all_pubs,
         publications |-> IF acc.raised THEN <<>> ELSE deduplicate(acc.all_pubs)]

Responses ==
    {[kind |-> k, publikationen |-> <<>>] : k \in {"timeout", "status", "malformed"}}
    \cup {[kind |-> "ok", publikationen |-> p] : p \in SeqsUpTo(RawEntries, 1)}

FetchTeam ==
    /\ team_result.op = "none"
    /\ \E members \in SeqsUpTo(Members, MaxMembers) :
          LET fetchable == fetchable_members(IF members = <<>> THEN CEIR_TEAM ELSE members)
          IN  \E responses \in [1..Len(fetchable) -> Responses] :
                 team_result' = [op |-> "fetch_team", members |-> members,
                                 fetchable |-> fetchable, responses |-> responses,
                                 ret |-> fetch_team(members, responses)]
    /\ UNCHANGED <<collections, items, library_version, collection_keys, uuid_count,
                   tokens_sent, requests, before, result, history, calls, discovery, writers,
                   router, callers>>

\* ------------------------------------------------- discover_tokens
\* The token of Thun, the seed when the caller passes none.
DefaultSeed == 1

\* seed_token as callers pass it: None (0), a roster token, another token.
SeedTokens == {0, 2, 7}

\* People as the co-author list and the internal-author lists name them:
\* roster members without a configured token under two tokens, one without
\* a token, a roster member with a configured token under another token,
\* and a person who is not on the roster.
People == {[name |-> "Chahabadi", token |-> 3],
           [name |-> "Chahabadi", token |-> 4],
           [name |-> "Chahabadi", token |-> 0],
           [name |-> "Thun", token |-> 5],
           [name |-> "Mueller", token |-> 6]}

Surnames == {p.name : p \in People} \cup {m.surname : m \in Members}

\* team_surnames = {m.surname for m in CEIR_TEAM}
team_surnames == {m.surname : m \in Members}

\* discovered, before the scan: the configured tokens (0: no entry).
known_tokens ==
    [s \in Surnames |->
        IF \E m \in Members : m.surname = s /\ m.token # 0
        THEN (CHOOSE m \in Members : m.surname = s).token ELSE 0]

\* tokens_to_scan = [seed] + [m.token for m in CEIR_TEAM if m.token and m.token != seed]
tokens_to_scan(seed_token) ==
    LET seed == IF seed_token # 0 THEN seed_token ELSE DefaultSeed
        configured == SelectSeq(CEIR_TEAM, LAMBDA m : m.token # 0 /\ m.token # seed)
    IN  <<seed>> \o [i \in 1..Len(configured) |-> configured[i].token]

discover_entry_overwrite(acc, person, via, kind) ==
    IF person.token # 0 /\ person.name \in Surnames
    THEN [discovered |-> [acc.discovered EXCEPT ![person.name] = person.token],
          found |-> Append(acc.found, [surname |-> person.name, token |-> person.token,
                                       via |-> via, kind |-> kind])]
    ELSE acc

\* if token and surname in team_surnames and surname not in discovered:
\*     discovered[surname] = token
discover_entry(acc, person, via, kind) ==
    IF person.token # 0 /\ person.name \in team_surnames /\ acc.discovered[person.name] = 0
    THEN [discovered |-> [acc.discovered EXCEPT ![person.name] = person.token],
          found |-> Append(acc.found, [surname |-> person.name, token |-> person.token,
                                       via |-> via, kind |-> kind])]
    ELSE acc

RECURSIVE discover_all(_, _, _, _)
discover_all(acc, people, via, kind) ==
    IF people = <<>> THEN acc
    ELSE discover_all(discover_entry(acc, Head(people), via, kind), Tail(people), via, kind)

\* The internal authors of all publications of one fetch, in order.
RECURSIVE internal_authors(_)
internal_authors(pubs) ==
    IF pubs = <<>> THEN <<>>
    ELSE Head(pubs).internal_authors \o internal_authors(Tail(pubs))

\* What one endpoint of the research database answers: an HTTP failure
\* (caught, the fetch returns []), a body that is not JSON (resp.json() is
\* outside the try block and raises), or a list.
CoauthorResponses ==
    {[kind |-> k, people |-> <<>>] : k \in {"status", "malformed"}}
        \cup {[kind |-> "ok", people |-> p] : p \in SeqsUpTo(People, 2)}

PublicationResponses ==
    {[kind |-> k, pubs |-> <<>>] : k \in {"status", "malformed"}}
        \cup {[kind |-> "ok", pubs |-> <<>>]}
        \cup {[kind |-> "ok", pubs |-> <<[internal_authors |-> a]>>] : a \in SeqsUpTo(People, 2)}

NoDiscovery == [pc |-> "idle"]

\* discover_tokens up to its loop.
DiscoverTokens ==
    /\ discovery.pc = "idle"
    /\ \E seed_token \in SeedTokens :
          discovery' = [pc |-> "scanning", seed_token |-> seed_token,
                        tokens_to_scan |-> tokens_to_scan(seed_token), scanned |-> 0,
                        discovered |-> known_tokens, found |-> <<>>,
                        coauthor_fetches |-> <<>>, publication_fetches |-> <<>>]
    /\ UNCHANGED <<collections, items, library_version, collection_keys, uuid_count,
                   tokens_sent, requests, before, result, history, calls, team_result,
                   writers, router, callers>>

\* One pass of the loop over tokens_to_scan: the co-authors of the token,
\* then the internal authors of its publications.
ScanToken ==
    /\ discovery.pc = "scanning"
    /\ discovery.scanned < Len(discovery.tokens_to_scan)
    /\ \E coauthors \in CoauthorResponses, publications \in PublicationResponses :
          LET token == discovery.tokens_to_scan[discovery.scanned + 1]
              acc0 == [discovered |-> discovery.discovered, found |-> discovery.found]
              acc1 == discover_all(acc0, coauthors.people, token, "coauthors")
              acc2 == discover_all(acc1, internal_authors(publications.pubs), token,
                                   "publications")
          IN  discovery' =
                 IF coauthors.kind = "malformed"
                 THEN [discovery EXCEPT !.pc = "raised",
                                        !.coauthor_fetches = Append(@, token)]
                 ELSE IF publications.kind = "malformed"
                 THEN [discovery EXCEPT !.pc = "raised",
                                        !.discovered = acc1.discovered,
                                        !.found = acc1.found,
                                        !.coauthor_fetches = Append(@, token),
                                        !.publication_fetches = Append(@, token)]
                 ELSE [discovery EXCEPT !.scanned = @ + 1,
                                        !.discovered = acc2.discovered,
                                        !.found = acc2.found,
                                        !.coauthor_fetches = Append(@, token),
                                        !.publication_fetches = Append(@, token)]
    /\ UNCHANGED <<collections, items, library_version, collection_keys, uuid_count,
                   tokens_sent, requests, before, result, history, calls, team_result,
                   writers, router, callers>>

\* return discovered
DiscoverReturn ==
    /\ discovery.pc = "scanning"
    /\ discovery.scanned = Len(discovery.tokens_to_scan)
    /\ discovery' = [discovery EXCEPT !.pc = "done"]
    /\ UNCHANGED <<collections, items, library_version, collection_keys, uuid_count,
                   tokens_sent, requests, before, result, history, calls, team_result,
                   writers, router, callers>>

\* ------------------------------------------------- reads of the client
\* What the zotero-mcp subprocess answers to one tool call: the channel
\* fails, the first text content is a JSON object, it is text that is not
\* JSON, or there is no text content.
JsonObjects ==
    { <<>>,
      [error |-> "not found"],
      [error |-> "rate limited", items |-> <<1, 2>>],
      [error |-> "partial", results |-> <<3>>, text |-> "raw", fulltext |-> "body",
       collections |-> <<1>>, annotations |-> <<1>>, tags |-> <<1>>],
      [items |-> <<1, 2, 3>>],
      [results |-> <<3, 1>>],
      [items |-> <<2>>, results |-> <<3>>],
      [collections |-> <<1, 2>>],
      [fulltext |-> "body"],
      [text |-> "raw"],
      [annotations |-> <<1>>],
      [tags |-> <<1, 2>>] }

ToolReplies ==
    {[kind |-> "exception"], [kind |-> "no_text"], [kind |-> "not_json"]}
        \cup {[kind |-> "json", value |-> v] : v \in JsonObjects}

\* _call_tool_async: any exception of the channel becomes an "error" record;
\* JSON text is decoded; other text is wrapped; no text gives str(result).
call_tool(tool_name, reply) ==
    CASE reply.kind = "exception" -> [error |-> "channel", tool |-> tool_name]
      [] reply.kind = "json" -> reply.value
      [] reply.kind = "not_json" -> [text |-> "plain"]
      [] OTHER -> [result |-> "str"]

\* dict.get(key, default)
dict_get(d, key, default) == IF key \in DOMAIN d THEN d[key] ELSE default

\* list[:limit]
Take(s, limit) == SubSeq(s, 1, IF limit < Len(s) THEN limit ELSE Len(s))

search_items_unchecked(tool_result, limit) ==
    Take(dict_get(tool_result, "items", dict_get(tool_result, "results", <<>>)), limit)

search_items(tool_result, limit) ==
    IF "error" \in DOMAIN tool_result THEN <<>>
    ELSE Take(dict_get(tool_result, "items", dict_get(tool_result, "results", <<>>)), limit)

\* get_item hands the tool result on as it is.
get_item_metadata(tool_result) == tool_result

list_collections_read(tool_result) ==
    IF "error" \in DOMAIN tool_result THEN <<>>
    ELSE dict_get(tool_result, "collections", <<>>)

get_collection_items(tool_result) ==
    IF "error" \in DOMAIN tool_result THEN <<>>
    ELSE dict_get(tool_result, "items", <<>>)

get_item_fulltext(tool_result) ==
    IF "error" \in DOMAIN tool_result THEN ""
    ELSE dict_get(tool_result, "fulltext", dict_get(tool_result, "text", ""))

get_annotations(tool_result) ==
    IF "error" \in DOMAIN tool_result THEN <<>>
    ELSE dict_get(tool_result, "annotations", <<>>)

semantic_search(tool_result) ==
    IF "error" \in DOMAIN tool_result THEN <<>>
    ELSE dict_get(tool_result, "results", dict_get(tool_result, "items", <<>>))

advanced_search(tool_result) ==
    IF "error" \in DOMAIN tool_result THEN <<>>
    ELSE dict_get(tool_result, "items", dict_get(tool_result, "results", <<>>))

get_recent(tool_result) ==
    IF "error" \in DOMAIN tool_result THEN <<>>
    ELSE dict_get(tool_result, "items", <<>>)

get_tags(tool_result) ==
    IF "error" \in DOMAIN tool_result THEN <<>>
    ELSE dict_get(tool_result, "tags", <<>>)

search_by_tag(tool_result) ==
    IF "error" \in DOMAIN tool_result THEN <<>>
    ELSE dict_get(tool_result, "items", <<>>)

ReadOps == {"search_items", "get_item", "list_collections", "get_collection_items",
            "get_item_fulltext", "get_annotations", "semantic_search", "advanced_search",
            "get_recent", "get_tags", "search_by_tag"}

Limits == 1..2

\* The effect of one read: the library is not touched and no request of the
\* write API is sent.
Read(op, tool_result, limit, ret) ==
    /\ result' = [op |-> op, args |-> [tool_result |-> tool_result, limit |-> limit],
                  ret |-> ret]
    /\ requests' = <<>>
    /\ before' = [collections |-> collections, items |-> items]
    /\ calls' = calls + 1
    /\ UNCHANGED <<collections, items, library_version, collection_keys, uuid_count,
                   tokens_sent, history, team_result, discovery, writers, router, callers>>

SearchItems ==
    /\ Idle
    /\ \E reply \in ToolReplies, limit \in Limits :
          LET tool_result == call_tool("zotero_search_items", reply)
          IN  Read("search_items", tool_result, limit, search_items(tool_result, limit))

GetItem ==
    /\ Idle
    /\ \E reply \in ToolReplies :
          LET tool_result == call_tool("zotero_get_item_metadata", reply)
          IN  Read("get_item", tool_result, 0, get_item_metadata(tool_result))

ListCollections ==
    /\ Idle
    /\ \E reply \in ToolReplies :
          LET tool_result == call_tool("zotero_get_collections", reply)
          IN  Read("list_collections", tool_result, 0, list_collections_read(tool_result))

GetCollectionItems ==
    /\ Idle
    /\ \E reply \in ToolReplies :
          LET tool_result == call_tool("zotero_get_collection_items", reply)
          IN  Read("get_collection_items", tool_result, 0, get_collection_items(tool_result))

GetItemFulltext ==
    /\ Idle
    /\ \E reply \in ToolReplies :
          LET tool_result == call_tool("zotero_get_item_fulltext", reply)
          IN  Read("get_item_fulltext", tool_result, 0, get_item_fulltext(tool_result))

GetAnnotations ==
    /\ Idle
    /\ \E reply \in ToolReplies :
          LET tool_result == call_tool("zotero_get_annotations", reply)
          IN  Read("get_annotations", tool_result, 0, get_annotations(tool_result))

SemanticSearch ==
    /\ Idle
    /\ \E reply \in ToolReplies :
          LET tool_result == call_tool("zotero_semantic_search", reply)
          IN  Read("semantic_search", tool_result, 0, semantic_search(tool_result))

AdvancedSearch ==
    /\ Idle
    /\ \E reply \in ToolReplies :
          LET tool_result == call_tool("zotero_advanced_search", reply)
          IN  Read("advanced_search", tool_result, 0, advanced_search(tool_result))

GetRecent ==
    /\ Idle
    /\ \E reply \in ToolReplies :
          LET tool_result == call_tool("zotero_get_recent", reply)
          IN  Read("get_recent", tool_result, 0, get_recent(tool_result))

GetTags ==
    /\ Idle
    /\ \E reply \in ToolReplies :
          LET tool_result == call_tool("zotero_get_tags", reply)
          IN  Read("get_tags", tool_result, 0, get_tags(tool_result))

SearchByTag ==
    /\ Idle
    /\ \E reply \in ToolReplies :
          LET tool_result == call_tool("zotero_search_by_tag", reply)
          IN  Read("search_by_tag", tool_result, 0, search_by_tag(tool_result))

\* ------------------------------------------------- DualLibraryClient
MaxCallers == 2

Callers == 1..MaxCallers

\* The process environment the constructor reads ("": the variable is unset).
Environments ==
    [ZOTERO_GROUP_LIBRARY_ID : {"", "G1"}, ZOTERO_GROUP_API_KEY : {"", "gkey"},
     ZOTERO_PERSONAL_LIBRARY_ID : {"", "P1"}, ZOTERO_PERSONAL_API_KEY : {"", "pkey"},
     ZOTERO_LIBRARY_ID : {"", "L1"}, ZOTERO_API_KEY : {"", "lkey"}]

\* a or b, on optional strings
Or(a, b) == IF a # "" THEN a ELSE b

NoClient == [instance |-> 0]

NoRouter == [constructed |-> FALSE]

\* DualLibraryClient.__init__ with no arguments passed: the group and the
\* personal settings from the environment, the legacy variables when no
\* group library id is set, no client yet, default "group".
dual_library_init(env) ==
    LET group_library_id == Or("", env.ZOTERO_GROUP_LIBRARY_ID)
        group_api_key == Or("", env.ZOTERO_GROUP_API_KEY)
        fallback == group_library_id = ""
    IN  [constructed |-> TRUE,
         env |-> env,
         group_library_id |-> IF fallback THEN env.ZOTERO_LIBRARY_ID ELSE group_library_id,
         group_api_key |-> IF fallback THEN Or(group_api_key, env.ZOTERO_API_KEY)
                           ELSE group_api_key,
         personal_library_id |-> Or("", env.ZOTERO_PERSONAL_LIBRARY_ID),
         personal_api_key |-> Or("", env.ZOTERO_PERSONAL_API_KEY),
         group_client |-> NoClient,
         personal_client |-> NoClient,
         default_library |-> "group",
         instances |-> 0,
         last_valid |-> "group"]

\* The arguments callers pass for a library: omitted (""), the two libraries,
\* and a name that is neither.
LibraryArgs == {"", "group", "personal", "shared"}

resolve_library_default_only(library, default_library) == default_library

\* library = library or self._default_library
resolve_library(library, default_library) == Or(library, default_library)

cached_client_group_only(r, library) == r.group_client

\* The cached client of a library.
cached_client(r, library) ==
    IF library = "group" THEN r.group_client ELSE r.personal_client

\* The condition of the lazy properties: the library has an id and a key.
has_credentials(r, library) ==
    IF library = "group"
    THEN r.group_library_id # "" /\ r.group_api_key # ""
    ELSE r.personal_library_id # "" /\ r.personal_api_key # ""

\* ZoteroMCPClient(library_id=..., library_type=..., api_key=...)
new_client(r, library) ==
    IF library = "group"
    THEN [instance |-> r.instances + 1, library |-> "group", library_type |-> "group",
          library_id |-> r.group_library_id, api_key |-> r.group_api_key]
    ELSE [instance |-> r.instances + 1, library |-> "personal", library_type |-> "user",
          library_id |-> r.personal_library_id, api_key |-> r.personal_api_key]

not_configured(library) ==
    IF library = "group" THEN "Group library not configured"
    ELSE "Personal library not configured"

set_default_library_unchecked(default_library, library) ==
    [raised |-> "", default_library |-> library]

\* set_default_library: a value other than the two libraries raises and
\* assigns nothing.
set_default_library(default_library, library) ==
    IF library \notin {"group", "personal"}
    THEN [raised |-> "Invalid library type", default_library |-> default_library]
    ELSE [raised |-> "", default_library |-> library]

\* get_library_status
get_library_status(r) ==
    [group |-> [configured |-> r.group_library_id # "" /\ r.group_api_key # "",
                library_id |-> Or(r.group_library_id, "")],
     personal |-> [configured |-> r.personal_library_id # "" /\ r.personal_api_key # "",
                   library_id |-> Or(r.personal_library_id, "")],
     default |-> r.default_library]

NoStatus == [default |-> ""]

IdleCaller ==
    [pc |-> "idle", op |-> "none", arg |-> "", library |-> "", client |-> NoClient,
     raised |-> "", default_at_call |-> "", raced |-> FALSE, status |-> NoStatus]

AtRest(c) == callers[c].pc \in {"idle", "done"}

\* A caller may start a call when the router exists and the caller has none
\* in flight; `alone` keeps the router to one call at a time.
MayCall(c, alone) ==
    /\ router.constructed
    /\ AtRest(c)
    /\ calls < MaxCalls
    /\ alone => \A d \in Callers : AtRest(d)

libraryFrame == <<collections, items, library_version, collection_keys, uuid_count,
                  tokens_sent, requests, before, result, history, team_result, discovery, writers>>

\* DualLibraryClient()
Construct ==
    /\ ~router.constructed
    /\ \E env \in Environments : router' = dual_library_init(env)
    /\ UNCHANGED <<libraryFrame, calls, callers>>

\* set_default_library(library), one step: the test and the assignment.
SetDefaultLibrary(c, alone) ==
    /\ MayCall(c, alone)
    /\ \E library \in LibraryArgs :
          LET r == set_default_library(router.default_library, library)
              changed == r.default_library # router.default_library
          IN  /\ router' = [router EXCEPT
                              !.default_library = r.default_library,
                              !.last_valid = IF library \in {"group", "personal"}
                                             THEN library ELSE @]
              /\ callers' = [d \in Callers |->
                               IF d = c
                               THEN [IdleCaller EXCEPT !.pc = "done",
                                                       !.op = "set_default_library",
                                                       !.arg = library,
                                                       !.raised = r.raised,
                                                       !.default_at_call = router.default_library]
                               ELSE IF changed /\ ~AtRest(d)
                                    THEN [callers[d] EXCEPT !.raced = TRUE]
                                    ELSE callers[d]]
    /\ calls' = calls + 1
    /\ UNCHANGED libraryFrame

\* get_library_status()
GetLibraryStatus(c, alone) ==
    /\ MayCall(c, alone)
    /\ callers' = [callers EXCEPT ![c] =
                      [IdleCaller EXCEPT !.pc = "done", !.op = "get_library_status",
                                         !.default_at_call = router.default_library,
                                         !.status = get_library_status(router)]]
    /\ calls' = calls + 1
    /\ UNCHANGED <<libraryFrame, router>>

\* A caller enters get_client(library) or search_items(query, library=library).
RouterCall(c, op, alone) ==
    /\ MayCall(c, alone)
    /\ \E library \in LibraryArgs :
          callers' = [callers EXCEPT ![c] =
                         [IdleCaller EXCEPT !.pc = "called", !.op = op, !.arg = library,
                                            !.default_at_call = router.default_library]]
    /\ calls' = calls + 1
    /\ UNCHANGED <<libraryFrame, router>>

GetClientCall(c, alone) == RouterCall(c, "get_client", alone)

SearchItemsCall(c, alone) == RouterCall(c, "search_items", alone)

\* get_client, first statement: the library the call is for.
Resolve(c) ==
    /\ callers[c].pc = "called"
    /\ callers' = [callers EXCEPT ![c].pc = "resolved",
                                  ![c].library = resolve_library(callers[c].arg,
                                                                 router.default_library)]
    /\ UNCHANGED <<libraryFrame, calls, router>>

\* get_client, the test "if not self.<library>_client": the property finds
\* the cached client, or goes on to construct one, or there is none to give.
CheckClient(c) ==
    /\ callers[c].pc = "resolved"
    /\ LET library == callers[c].library
       IN  callers' = [callers EXCEPT ![c] =
              IF library \notin {"group", "personal"}
              THEN [@ EXCEPT !.pc = "done", !.raised = "Unknown library type"]
              ELSE IF cached_client(router, library) # NoClient
              THEN [@ EXCEPT !.pc = "fetching"]
              ELSE IF has_credentials(router, library)
              THEN [@ EXCEPT !.pc = "constructing"]
              ELSE [@ EXCEPT !.pc = "done", !.raised = not_configured(library)]]
    /\ UNCHANGED <<libraryFrame, calls, router>>

\* The property constructs the client and stores it.
ConstructClient(c) ==
    /\ callers[c].pc = "constructing"
    /\ LET library == callers[c].library
           client == new_client(router, library)
       IN  router' = IF library = "group"
                     THEN [router EXCEPT !.group_client = client, !.instances = @ + 1]
                     ELSE [router EXCEPT !.personal_client = client, !.instances = @ + 1]
    /\ callers' = [callers EXCEPT ![c].pc = "fetching"]
    /\ UNCHANGED <<libraryFrame, calls>>

\* "return self.<library>_client": the property gives the stored client;
\* get_client returns it, search_items goes on to run on it.
FetchClient(c) ==
    /\ callers[c].pc = "fetching"
    /\ callers' = [callers EXCEPT
                      ![c].client = cached_client(router, callers[c].library),
                      ![c].pc = IF callers[c].op = "get_client" THEN "done" ELSE "executing"]
    /\ UNCHANGED <<libraryFrame, calls, router>>

\* search_items runs on the client get_client returned.
Execute(c) ==
    /\ callers[c].pc = "executing"
    /\ callers' = [callers EXCEPT ![c].pc = "done"]
    /\ UNCHANGED <<libraryFrame, calls, router>>

\* ------------------------------------------------- concurrent membership writes
\* Callers of add_items_to_collection (with one item key) and of
\* remove_item_from_collection that run at the same time, each in its own
\* thread or process: a call is a read of the item, then one PATCH.
Writers == 1..MaxCallers

WriterOps == {"add", "remove"}

IdleWriter == [pc |-> "idle"]

WriterDone(call, status, written, written_at) ==
    [pc |-> "done", op |-> call.op, collection_key |-> call.collection_key,
     item_key |-> call.item_key, status |-> status, written |-> written,
     written_at |-> written_at, read_version |-> call.read_version]

writerFrame == <<uuid_count, tokens_sent, requests, before, result, history, calls,
                 team_result, discovery, router, callers>>

\* item = self.get_item(item_key), and the returns that need no write.
ReadItem(w) ==
    /\ writers[w].pc = "idle"
    /\ \E op \in WriterOps, collection_key \in CollectionKeys, item_key \in 1..2 :
          LET item == get_item(Store, item_key, "ok")
              call == [op |-> op, collection_key |-> collection_key, item_key |-> item_key,
                       read_version |-> item.version]
              member == InSeq(collection_key, item.collections)
          IN  writers' = [writers EXCEPT ![w] =
                 IF item.error THEN WriterDone(call, "error", FALSE, 0)
                 ELSE IF op = "add" /\ member
                 THEN WriterDone(call, "already_in_collection", FALSE, 0)
                 ELSE IF op = "remove" /\ ~member
                 THEN WriterDone(call, "success", FALSE, 0)
                 ELSE [pc |-> "read", op |-> op, collection_key |-> collection_key,
                       item_key |-> item_key, item |-> item, read_version |-> item.version]]
    /\ UNCHANGED <<collections, items, library_version, collection_keys>>
    /\ UNCHANGED writerFrame

\* client.patch(url, headers={"If-Unmodified-Since-Version": str(version)},
\* json={"collections": updated_collections}) and the result of the call.
PatchItem(w) ==
    /\ writers[w].pc = "read"
    /\ \E outcome \in {"ok", "network"} :
          LET call == writers[w]
              updated_collections ==
                  IF call.op = "add" THEN Append(call.item.collections, call.collection_key)
                  ELSE SelectSeq(call.item.collections, LAMBDA c : c # call.collection_key)
              resp == patch_item(Store, call.item_key,
                                 [has_collections |-> TRUE, collections |-> updated_collections],
                                 version_guard(call.item), outcome)
              status == IF ~resp.accepted THEN "error"
                        ELSE IF call.op = "add" THEN "added" ELSE "success"
          IN  /\ writers' = [writers EXCEPT ![w] =
                    WriterDone(call, status, resp.accepted,
                               IF resp.accepted THEN resp.st.version ELSE 0)]
              /\ items' = resp.st.items
              /\ library_version' = resp.st.version
    /\ UNCHANGED <<collections, collection_keys>>
    /\ UNCHANGED writerFrame

\* ------------------------------------------------- ZoteroWorkflows
MaxPapers == 2
MaxHits == 3
MaxMatches == 2

\* Items of the library as the search tool returns them: a missing title or
\* date, dates with and without four digits in a row.
LibraryPapers ==
    { [key |-> "A1", title |-> "Paper 1", date |-> "2024-01-15"],
      [key |-> "A2", date |-> "2023"],
      [key |-> "A3", title |-> "Paper 3", date |-> "January 2022"],
      [key |-> "A4", title |-> "Paper 4", date |-> "n.d."],
      [key |-> "A5", title |-> "Paper 5"] }

\* re.search(r"(\d{4})", date_str): the first four digits in a row ("": no
\* match).
year_digits(date_str) ==
    CASE date_str = "2024-01-15" -> "2024"
      [] date_str = "2023" -> "2023"
      [] date_str = "January 2022" -> "2022"
      [] OTHER -> ""

\* int(match.group(1))
to_int(digits) ==
    CASE digits = "2024" -> 2024
      [] digits = "2023" -> 2023
      [] digits = "2022" -> 2022
      [] OTHER -> 0

\* _extract_year: the year as an integer, 0 when the date has none.
extract_year(date_str) ==
    IF year_digits(date_str) # "" THEN to_int(year_digits(date_str)) ELSE 0

\* _extract_year_str
extract_year_str(date_str) == year_digits(date_str)

\* _suggest_collection: the collection of the first keyword the lower-cased
\* text contains.
suggest_collection(title) ==
    CASE title = "FHIR mapping" -> "FHIR"
      [] title = "Deep Learning for EHR" -> "ML"
      [] OTHER -> "Uncategorized"

Topics == {"FHIR mapping", "Random Title"}

\* min_year: Optional[int]; not passed is None.
NoMinYear == [passed |-> FALSE, value |-> 0]

MinYears == {NoMinYear} \cup {[passed |-> TRUE, value |-> y] : y \in {-1, 0, 2023, 2024}}

\* "if min_year:" - None and 0 are false.
truthy_year(min_year) == min_year.passed /\ min_year.value # 0

\* The year filter of build_reading_list.
year_filter(all_papers, min_year) ==
    IF truthy_year(min_year)
    THEN SelectSeq(all_papers,
                   LAMBDA p : extract_year(dict_get(p, "date", "")) >= min_year.value)
    ELSE all_papers

\* list[:n] for any integer n
slice_to(s, n) ==
    IF n >= 0 THEN Take(s, n)
    ELSE SubSeq(s, 1, IF Len(s) + n > 0 THEN Len(s) + n ELSE 0)

format_paper(p) ==
    [key |-> dict_get(p, "key", ""),
     title |-> dict_get(p, "title", "Untitled"),
     year |-> extract_year_str(dict_get(p, "date", ""))]

count_found_after_filter(all_papers, filtered) == Len(filtered)

\* "papers_found": len(all_papers)
count_found(all_papers, filtered) == Len(all_papers)

\* build_reading_list: one search with limit 100, the year filter, the first
\* max_papers entries, formatted.
build_reading_list(reply, topic, max_papers, min_year) ==
    LET all_papers == search_items(call_tool("zotero_search_items", reply), 100)
        filtered == year_filter(all_papers, min_year)
        selected == slice_to(filtered, max_papers)
        papers == [i \in 1..Len(selected) |-> format_paper(selected[i])]
    IN  [tool_calls |-> <<"zotero_search_items">>,
         all_papers |-> all_papers,
         results |-> [topic |-> topic,
                      papers_found |-> count_found(all_papers, filtered),
                      papers_included |-> Len(papers),
                      papers |-> papers,
                      suggested_collection |-> suggest_collection(topic)]]

\* What the search tool answers to a workflow: a failure, or items.
SearchReplies(hits) ==
    {[kind |-> "exception"]} \cup {[kind |-> "json", value |-> [items |-> h]] : h \in hits}

\* The effect of one workflow call: it only reads.
Workflow(op, args, r) ==
    /\ result' = [op |-> op, args |-> args, ret |-> r.results,
                  tool_calls |-> r.tool_calls, all_papers |-> r.all_papers]
    /\ requests' = <<>>
    /\ before' = [collections |-> collections, items |-> items]
    /\ calls' = calls + 1
    /\ UNCHANGED <<collections, items, library_version, collection_keys, uuid_count,
                   tokens_sent, history, team_result, discovery, writers, router, callers>>

\* A DOI as callers and library items write it: an optional prefix, the
\* text, and possibly blanks around it.
DoiString(prefix, body, padded) == [prefix |-> prefix, body |-> body, padded |-> padded]

\* The empty string
NoDoi == DoiString("", "", FALSE)

DoiPrefixes == {"", "https://doi.org/", "http://doi.org/", "doi:", "https://dx.doi.org/"}

DoiBodies == {"10.1234/test", "10.1234/TEST", "10.5555/other", "invalid-doi", "10.12/x"}

DoiInputs == [prefix : DoiPrefixes, body : DoiBodies, padded : BOOLEAN]

\* re.match(r"^10\.\d{4,}/", doi)
matches_doi_pattern(text) == text \in {"10.1234/test", "10.1234/TEST", "10.5555/other"}

\* _normalize_doi: the two resolver URLs and "doi:" are removed, blanks are
\* stripped, and what is left must start like a DOI ("": None).
normalize_doi(doi) ==
    IF doi.prefix \in {"", "https://doi.org/", "http://doi.org/", "doi:"}
       /\ matches_doi_pattern(doi.body)
    THEN doi.body
    ELSE ""

lower_identity(text) == text

\* str.lower
lower(text) == IF text = "10.1234/TEST" THEN "10.1234/test" ELSE text

\* _extract_doi: paper.get("DOI") or paper.get("doi"), normalized.
extract_doi(paper) ==
    LET doi == IF dict_get(paper, "DOI", NoDoi) # NoDoi THEN paper["DOI"]
               ELSE dict_get(paper, "doi", NoDoi)
    IN  IF doi # NoDoi THEN normalize_doi(doi) ELSE ""

\* Items of the library as the search tool returns them, with the DOI under
\* "DOI" or "doi", with a prefix, in another case, or without one.
DoiPapers ==
    { [key |-> "ABC", title |-> "Existing Paper", DOI |-> DoiString("", "10.1234/test", FALSE)],
      [key |-> "DEF", doi |-> DoiString("https://doi.org/", "10.1234/TEST", FALSE)],
      [key |-> "GHI", title |-> "Other", DOI |-> DoiString("", "10.5555/other", FALSE)],
      [key |-> "JKL", title |-> "No DOI"],
      [key |-> "MNO", DOI |-> NoDoi, doi |-> DoiString("doi:", "10.1234/test", TRUE)] }

Filler == [key |-> "GHI", title |-> "Other", DOI |-> DoiString("", "10.5555/other", FALSE)]

\* The lists the search tool may answer with: short ones, and lists of six
\* whose last entry is beyond the limit of five.
DoiHits ==
    SeqsUpTo(DoiPapers, MaxMatches)
        \cup {<<Filler, Filler, Filler, Filler, Filler, p>> : p \in DoiPapers}

smart_add_paper_search_first(reply, doi, check_duplicates, suggest) ==
    LET existing == search_items(call_tool("zotero_search_items", reply), 5)
    IN  [tool_calls |-> <<"zotero_search_items">>,
         all_papers |-> existing,
         results |-> IF normalize_doi(doi) = ""
                     THEN [status |-> "error", doi |-> "", message |-> "Invalid DOI format"]
                     ELSE [status |-> "ready", doi |-> normalize_doi(doi),
                           message |-> "DOI validated",
                           suggested_collection |-> IF suggest
                                                    THEN suggest_collection(normalize_doi(doi))
                                                    ELSE "None"]]

\* smart_add_paper: normalize the DOI; with check_duplicates, one search with
\* limit 5 and the first result with the same DOI; no write.
smart_add_paper(reply, doi, check_duplicates, suggest) ==
    LET normalized == normalize_doi(doi)
        existing == IF check_duplicates
                    THEN search_items(call_tool("zotero_search_items", reply), 5)
                    ELSE <<>>
        same == {i \in 1..Len(existing) :
                   /\ extract_doi(existing[i]) # ""
                   /\ lower(extract_doi(existing[i])) = lower(normalized)}
        first == CHOOSE i \in same : \A j \in same : i <= j
    IN  IF normalized = ""
        THEN [tool_calls |-> <<>>, all_papers |-> <<>>,
              results |-> [status |-> "error", doi |-> "", message |-> "Invalid DOI format"]]
        ELSE [tool_calls |-> IF check_duplicates THEN <<"zotero_search_items">> ELSE <<>>,
              all_papers |-> existing,
              results |-> IF same # {}
                          THEN [status |-> "duplicate", doi |-> normalized,
                                title |-> dict_get(existing[first], "title", ""),
                                duplicate_key |-> dict_get(existing[first], "key", ""),
                                message |-> "Paper already exists in library"]
                          ELSE [status |-> "ready", doi |-> normalized,
                                message |-> "DOI validated",
                                suggested_collection |-> IF suggest
                                                         THEN suggest_collection(normalized)
                                                         ELSE "None"]]

SmartAddPaper ==
    /\ Idle
    /\ \E reply \in SearchReplies(DoiHits), doi \in DoiInputs,
          check_duplicates \in BOOLEAN, suggest \in BOOLEAN :
          Workflow("smart_add_paper",
                   [reply |-> reply, doi |-> doi, check_duplicates |-> check_duplicates,
                    suggest_collection |-> suggest],
                   smart_add_paper(reply, doi, check_duplicates, suggest))

\* ------------------------------------------------- export_bibliography
\* Names, tags and formats a caller passes ("": None or the empty string,
\* which Python treats alike in `if collection_name:`).
CollectionNames == {"", "PROMs", "Missing"}

ExportTags == {"", "fhir"}

ExportFormats == {"bibtex", "apa"}

\* Collections as zotero_get_collections lists them.
ListedCollections == {[key |-> "C1", name |-> "PROMs"], [key |-> "C2", name |-> "FHIR"]}

\* What the collections tool answers: a failure, or collections.
ListReplies ==
    {[kind |-> "exception"]}
        \cup {[kind |-> "json", value |-> [collections |-> c]] :
                 c \in SeqsUpTo(ListedCollections, 2)}

truthy_always(s) == TRUE

\* bool(s) of an optional string
truthy_str(s) == s # ""

\* next((c for c in collections if c.get("name") == collection_name), None):
\* the position of the first collection of that name, 0 for None.
next_named(collectionList, collection_name) ==
    LET named == {i \in 1..Len(collectionList) :
                     dict_get(collectionList[i], "name", "") = collection_name}
    IN  IF named = {} THEN 0 ELSE CHOOSE i \in named : \A j \in named : i <= j

\* _to_bibtex: None (here <<>>) for a paper without a title.
to_bibtex(paper) ==
    IF dict_get(paper, "title", "") = "" THEN <<>>
    ELSE <<[type |-> "article", key |-> dict_get(paper, "key", "unknown"),
            title |-> paper.title]>>

RECURSIVE bibtex_entries(_)
bibtex_entries(papers) ==
    IF papers = <<>> THEN <<>>
    ELSE to_bibtex(Head(papers)) \o bibtex_entries(Tail(papers))

\* The part of export_bibliography after the papers are fetched.
render_bibliography(tool_calls, papers, format) ==
    [tool_calls |-> tool_calls,
     all_papers |-> papers,
     results |-> IF papers = <<>>
                 THEN [status |-> "success", format |-> format, count |-> 0,
                       bibliography |-> <<>>]
                 ELSE IF format = "bibtex"
                 THEN [status |-> "success", format |-> format,
                       count |-> Len(bibtex_entries(papers)),
                       bibliography |-> bibtex_entries(papers)]
                 ELSE [status |-> "error", message |-> "Unsupported format"]]

\* export_bibliography: the papers of the named collection, else of the tag,
\* else an error; then the rendering.
export_bibliography(list_reply, items_reply, collection_name, tag, format) ==
    LET listed == list_collections_read(call_tool("zotero_get_collections", list_reply))
        found == next_named(listed, collection_name)
    IN  IF truthy_str(collection_name)
        THEN IF found # 0
             THEN render_bibliography(
                      <<"zotero_get_collections", "zotero_get_collection_items">>,
                      get_collection_items(call_tool("zotero_get_collection_items", items_reply)),
                      format)
             ELSE [tool_calls |-> <<"zotero_get_collections">>, all_papers |-> <<>>,
                   results |-> [status |-> "error", message |-> "Collection not found"]]
        ELSE IF truthy_str(tag)
        THEN render_bibliography(<<"zotero_search_by_tag">>,
                                 search_by_tag(call_tool("zotero_search_by_tag", items_reply)),
                                 format)
        ELSE [tool_calls |-> <<>>, all_papers |-> <<>>,
              results |-> [status |-> "error", message |-> "Specify collection_name or tag"]]

ExportBibliography ==
    /\ Idle
    /\ \E list_reply \in ListReplies, items_reply \in SearchReplies(SeqsUpTo(LibraryPapers, 2)),
          collection_name \in CollectionNames, tag \in ExportTags, format \in ExportFormats :
          Workflow("export_bibliography",
                   [list_reply |-> list_reply, items_reply |-> items_reply,
                    collection_name |-> collection_name, tag |-> tag, format |-> format],
                   export_bibliography(list_reply, items_reply, collection_name, tag, format))

\* ------------------------------------------------- HTTP routes
\* The GET routes of the FastAPI app in the order of their declaration: the
\* path as its segments, and the handler.
Routes ==
    << [path |-> <<"health">>, handler |-> "health"],
       [path |-> <<"api", "status">>, handler |-> "library_status"],
       [path |-> <<"api", "papers", "search">>, handler |-> "search_papers"],
       [path |-> <<"api", "papers", "{item_key}">>, handler |-> "get_paper_metadata"],
       [path |-> <<"api", "papers", "{item_key}", "fulltext">>, handler |-> "get_paper_fulltext"],
       [path |-> <<"api", "papers", "{item_key}", "annotations">>,
        handler |-> "get_paper_annotations"],
       [path |-> <<"api", "collections">>, handler |-> "list_collections"],
       [path |-> <<"api", "collections", "{collection_key}", "items">>,
        handler |-> "get_collection_items"],
       [path |-> <<"api", "papers", "semantic-search">>, handler |-> "semantic_search"],
       [path |-> <<"api", "papers", "advanced-search">>, handler |-> "advanced_search"],
       [path |-> <<"api", "papers", "recent">>, handler |-> "get_recent_papers"],
       [path |-> <<"api", "tags">>, handler |-> "get_tags"],
       [path |-> <<"api", "tags", "{tag}", "papers">>, handler |-> "get_papers_by_tag"],
       [path |-> <<"api", "workflows", "reading-list">>, handler |-> "build_reading_list"],
       [path |-> <<"api", "workflows", "smart-add">>, handler |-> "smart_add_paper"],
       [path |-> <<"api", "workflows", "export-bibliography">>,
        handler |-> "export_bibliography"],
       [path |-> <<"api", "workflows", "related-papers", "{item_key}">>,
        handler |-> "find_related_papers"],
       [path |-> <<"api", "group", "search">>, handler |-> "search_group_library"],
       [path |-> <<"api", "personal", "search">>, handler |-> "search_personal_library"] >>

\* A path parameter: "{name}" matches any one segment.
is_param(segment) == segment \in {"{item_key}", "{collection_key}", "{tag}"}

\* Keys and tags that requests put in the place of a path parameter.
PathValues == {"ABC123", "XYZ789", "fhir"}

\* The route's path regex matches the whole request path.
route_matches(route, path) ==
    /\ Len(route.path) = Len(path)
    /\ \A i \in 1..Len(path) : is_param(route.path[i]) \/ route.path[i] = path[i]

\* The router takes the first route that matches, in declaration order; no
\* route gives 404.
dispatch(routes, path) ==
    LET matching == {i \in 1..Len(routes) : route_matches(routes[i], path)}
    IN  IF matching = {} THEN "not_found"
        ELSE routes[CHOOSE i \in matching : \A j \in matching : i <= j].handler

\* The paths of the requests: every declared path, with each value in the
\* place of a parameter, and a path that is not declared.
RequestPaths ==
    {<<"api", "unknown">>}
        \cup {[i \in 1..Len(Routes[r].path) |->
                 IF is_param(Routes[r].path[i]) THEN v ELSE Routes[r].path[i]] :
              r \in 1..Len(Routes), v \in PathValues}

\* One GET request to the app.
HttpGet ==
    /\ Idle
    /\ \E path \in RequestPaths :
          result' = [op |-> "http_get", args |-> [path |-> path],
                     ret |-> [handler |-> dispatch(Routes, path)]]
    /\ requests' = <<>>
    /\ before' = [collections |-> collections, items |-> items]
    /\ calls' = calls + 1
    /\ UNCHANGED <<collections, items, library_version, collection_keys, uuid_count,
                   tokens_sent, history, team_result, discovery, writers, router, callers>>

\* ------------------------------------------------- DOI texts
MaxDoiLen == 5

\* A DOI text is a sequence of pieces; the pieces are chosen so that the
\* three prefixes occur in a text exactly where their pieces follow one
\* another: "doi:" is "d" "oi:", "http://doi.org/" is "http" "://doi.org/",
\* "https://doi.org/" is "http" "s" "://doi.org/".
DoiPieces == {"http", "s", "://doi.org/", "d", "oi:", "10.1234/", "x", " "}

DoiTexts == SeqsUpTo(DoiPieces, MaxDoiLen)

\* None
NoText == <<"None">>

\* str.replace(old, ""): the occurrences of old, found from the left without
\* overlap, are removed in one pass.
RECURSIVE replace(_, _)
replace(text, old) ==
    IF Len(text) < Len(old) THEN text
    ELSE IF SubSeq(text, 1, Len(old)) = old
         THEN replace(SubSeq(text, Len(old) + 1, Len(text)), old)
         ELSE <<Head(text)>> \o replace(Tail(text), old)

RECURSIVE lstrip(_)
lstrip(text) ==
    IF text # <<>> /\ Head(text) = " " THEN lstrip(Tail(text)) ELSE text

RECURSIVE rstrip(_)
rstrip(text) ==
    IF text # <<>> /\ text[Len(text)] = " "
    THEN rstrip(SubSeq(text, 1, Len(text) - 1)) ELSE text

\* str.strip()
strip(text) == lstrip(rstrip(text))

\* re.match(r"^10\.\d{4,}/", doi) on a text
match_doi(text) == text # <<>> /\ Head(text) = "10.1234/"

\* _normalize_doi on the text itself: the three replacements in the order of
\* the code, strip, and the pattern test.
normalize_doi_text(doi) ==
    LET without_https == replace(doi, <<"http", "s", "://doi.org/">>)
        without_http == replace(without_https, <<"http", "://doi.org/">>)
        without_doi == replace(without_http, <<"d", "oi:">>)
        stripped == strip(without_doi)
    IN  IF match_doi(stripped) THEN stripped ELSE NoText

\* _normalize_doi(doi)
NormalizeDoi ==
    /\ Idle
    /\ \E doi \in DoiTexts :
          /\ result' = [op |-> "normalize_doi", args |-> [doi |-> doi],
                        ret |-> normalize_doi_text(doi)]
          /\ requests' = <<>>
          /\ before' = [collections |-> collections, items |-> items]
          /\ calls' = calls + 1
    /\ UNCHANGED <<collections, items, library_version, collection_keys, uuid_count,
                   tokens_sent, history, team_result, discovery, writers, router, callers>>

BuildReadingList ==
    /\ Idle
    /\ \E reply \in SearchReplies(SeqsUpTo(LibraryPapers, MaxHits)), topic \in Topics,
          max_papers \in 0..MaxPapers, min_year \in MinYears :
          Workflow("build_reading_list",
                   [reply |-> reply, topic |-> topic, max_papers |-> max_papers,
                    min_year |-> min_year],
                   build_reading_list(reply, topic, max_papers, min_year))

\* The library the client is pointed at: empty, or holding one collection
\* and two items, the first filed in the collection.
EmptyLibrary ==
    /\ collections = <<>>
    /\ items = <<>>
    /\ library_version = 0
    /\ collection_keys = 0

SeededLibrary ==
    /\ collections = <<[key |-> 1, name |-> "PROMs", version |-> 1]>>
    /\ items = <<[collections |-> <<1>>, version |-> 4, paper |-> [source |-> "manual", id |-> 0]],
                 [collections |-> <<>>, version |-> 3, paper |-> [source |-> "manual", id |-> 0]]>>
    /\ library_version = 4
    /\ collection_keys = 1

Init ==
    /\ EmptyLibrary \/ SeededLibrary
    /\ uuid_count = 0
    /\ tokens_sent = <<>>
    /\ requests = <<>>
    /\ before = NoStore
    /\ result = NoResult
    /\ history = NoDigest
    /\ calls = 0
    /\ team_result = NoResult
    /\ discovery = NoDiscovery
    /\ writers = [w \in Writers |-> IdleWriter]
    /\ router = NoRouter
    /\ callers = [c \in Callers |-> IdleCaller]

Next ==
    \/ CreateCollection
    \/ AddItem
    \/ AddItemsToCollection
    \/ RemoveItemFromCollection
    \/ UpdateItem
    \/ DeleteCollection
    \/ Return

Spec == Init /\ [][Next]_vars

NextBridge ==
    \/ SearchPubmedToCollection
    \/ SearchArxivToCollection
    \/ SearchMultiSourceToCollection
    \/ Return

SpecBridge == Init /\ [][NextBridge]_vars

NextMulti ==
    \/ SearchMultiSourceAnySources
    \/ Return

SpecMulti == Init /\ [][NextMulti]_vars

NextRead ==
    \/ SearchItems
    \/ GetItem
    \/ ListCollections
    \/ GetCollectionItems
    \/ GetItemFulltext
    \/ GetAnnotations
    \/ SemanticSearch
    \/ AdvancedSearch
    \/ GetRecent
    \/ GetTags
    \/ SearchByTag
    \/ Return

SpecRead == Init /\ [][NextRead]_vars

\* The router owned by one caller at a time.
NextRouter ==
    \/ Construct
    \/ \E c \in Callers : SetDefaultLibrary(c, TRUE)
    \/ \E c \in Callers : GetLibraryStatus(c, TRUE)
    \/ \E c \in Callers : GetClientCall(c, TRUE)
    \/ \E c \in Callers : SearchItemsCall(c, TRUE)
    \/ \E c \in Callers : Resolve(c)
    \/ \E c \in Callers : CheckClient(c)
    \/ \E c \in Callers : ConstructClient(c)
    \/ \E c \in Callers : FetchClient(c)
    \/ \E c \in Callers : Execute(c)

SpecRouter == Init /\ [][NextRouter]_vars

\* The router shared by the worker threads of the HTTP server.
NextRace ==
    \/ Construct
    \/ \E c \in Callers : SetDefaultLibrary(c, FALSE)
    \/ \E c \in Callers : SearchItemsCall(c, FALSE)
    \/ \E c \in Callers : Resolve(c)
    \/ \E c \in Callers : CheckClient(c)
    \/ \E c \in Callers : ConstructClient(c)
    \/ \E c \in Callers : FetchClient(c)
    \/ \E c \in Callers : Execute(c)

SpecRace == Init /\ [][NextRace]_vars

NextWorkflows ==
    \/ BuildReadingList
    \/ SmartAddPaper
    \/ ExportBibliography
    \/ Return

SpecWorkflows == Init /\ [][NextWorkflows]_vars

NextDoi ==
    \/ NormalizeDoi
    \/ Return

SpecDoi == Init /\ [][NextDoi]_vars

NextDiscover ==
    \/ DiscoverTokens
    \/ ScanToken
    \/ DiscoverReturn

\* The coroutine runs on once it is awaited, and every request ends (the
\* HTTP client has a timeout).
SpecDiscover ==
    Init /\ [][NextDiscover]_vars /\ WF_vars(ScanToken) /\ WF_vars(DiscoverReturn)

NextWriters ==
    \/ CreateCollection
    \/ \E w \in Writers : ReadItem(w)
    \/ \E w \in Writers : PatchItem(w)

SpecWriters == Init /\ [][NextWriters]_vars

NextHttp ==
    \/ HttpGet
    \/ Return

SpecHttp == Init /\ [][NextHttp]_vars

NextTeam == FetchTeam

SpecTeam == Init /\ [][NextTeam]_vars

\* ================================================================ claims
IsAdd == result.op = "add_items_to_collection"
IsItemWrite == result.op \in {"add_items_to_collection", "remove_item_from_collection",
                              "update_item"}
IsImport == result.op \in ImportOps

NoRepeats(s) == \A i, j \in 1..Len(s) : i # j => s[i] # s[j]

WithStatus(details, status) == {i \in 1..Len(details) : details[i].status = status}

\* C1: the status returned by add_items_to_collection is "success" exactly
\* when failed = 0, "partial" exactly when added > 0 and failed > 0, and
\* "error" exactly when added = 0 and failed > 0.
C1_StatusFromCounts ==
    IsAdd =>
        LET r == result.ret
        IN  /\ r.status \in {"success", "partial", "error"}
            /\ (r.status = "success") <=> (r.failed = 0)
            /\ (r.status = "partial") <=> (r.added > 0 /\ r.failed > 0)
            /\ (r.status = "error") <=> (r.added = 0 /\ r.failed > 0)

C1_Witness ==
    /\ IsAdd
    /\ result.ret.status = "partial"
    /\ result.ret.added = 1
    /\ result.ret.failed = 1

WasMember(i) ==
    LET k == result.args.item_keys[i]
    IN  /\ k \in 1..Len(before.items)
        /\ InSeq(result.args.collection_key, before.items[k].collections)

\* C2: add_items_to_collection processes every key whatever failed before
\* it: details has one entry per key in input order, each "added", "error"
\* or "already_in_collection"; added and failed count the "added" and the
\* "error" entries; a key whose item is already a member is in neither count.
C2_WholeBatch ==
    IsAdd =>
        LET a == result.args
            r == result.ret
            d == result.ret.details
        IN  /\ Len(d) = Len(a.item_keys)
            /\ \A i \in 1..Len(d) :
                  /\ d[i].item_key = a.item_keys[i]
                  /\ d[i].status \in {"added", "error", "already_in_collection"}
                  /\ a.outcomes[i] = "refetch_error" => d[i].status = "error"
                  /\ a.outcomes[i] \in {"stale", "network"} => d[i].status # "added"
                  /\ (a.outcomes[i] = "ok" /\ a.item_keys[i] \in 1..Len(before.items))
                        => d[i].status # "error"
                  /\ (WasMember(i) /\ a.outcomes[i] # "refetch_error")
                        => d[i].status = "already_in_collection"
            /\ r.added = Cardinality(WithStatus(d, "added"))
            /\ r.failed = Cardinality(WithStatus(d, "error"))

C2_Witness ==
    /\ IsAdd
    /\ Len(result.ret.details) = 2
    /\ result.ret.details[1].status = "error"
    /\ result.ret.details[2].status = "added"

AsRequested(q) ==
    LET member == InSeq(result.args.collection_key, before.items[q.key].collections)
    IN  CASE result.op = "add_items_to_collection" -> member
          [] result.op = "remove_item_from_collection" -> ~member
          [] OTHER -> FALSE

Reported(q) ==
    IF IsAdd THEN result.ret.details[q.entry].status = "error"
    ELSE result.ret.status = "error"

C4_EveryWriteCarriesToken ==
    /\ \A i \in 1..Len(requests) : requests[i].write_token # 0
    /\ NoRepeats(tokens_sent)

\* C4 as amended: every create request (the POST of create_collection and of
\* add_item) carries a write token and no two requests carry the same token;
\* the versioned writes (the PATCH of add_items_to_collection,
\* remove_item_from_collection and update_item, the DELETE of
\* delete_collection) carry If-Unmodified-Since-Version and no write token.
C4_CreatesCarryFreshToken ==
    /\ \A i \in 1..Len(requests) :
          LET q == requests[i]
          IN  /\ q.method = "POST" => (q.write_token # 0 /\ q.if_unmodified = -1)
              /\ q.method \in {"PATCH", "DELETE"} =>
                    (q.write_token = 0 /\ q.if_unmodified >= 0)
    /\ result.op \in {"create_collection", "add_item"} =>
          (Len(requests) = 1 /\ requests[1].method = "POST")
    /\ NoRepeats(tokens_sent)

C4_Witness ==
    /\ result.op = "add_item"
    /\ Len(tokens_sent) = 2
    /\ requests[1].write_token = tokens_sent[2]

SameImport ==
    /\ IsImport
    /\ history.clean
    /\ Digest.clean
    /\ history.op = result.op
    /\ history.sources = result.args.sources
    /\ history.found = result.args.found
    /\ history.collection_name = result.args.collection_name

\* C5 as claimed: an import run a second time with the same search results
\* and collection name, all remote calls succeeding, leaves the library as
\* the first run left it: the same collections and the same items.
C5_ImportIdempotent ==
    SameImport =>
        /\ Digest.n_collections = history.n_collections
        /\ Digest.n_named = history.n_named
        /\ Digest.n_items = history.n_items

\* C5 as amended: the second run resolves the collection the first run used
\* and creates no collection, but creates one new item for every found
\* paper and files it in that collection.
C5_CollectionReusedItemsAddedAgain ==
    SameImport =>
        /\ Digest.n_collections = history.n_collections
        /\ Digest.n_named = history.n_named
        /\ Digest.collection_key = history.collection_key
        /\ Digest.n_items = history.n_items + result.ret.papers_found
        /\ Digest.n_filed = history.n_filed + result.ret.papers_found

C5_Witness ==
    /\ SameImport
    /\ result.ret.papers_found = 2
    /\ result.args.create_collection

Absent == NamedCollections(before.collections, result.args.collection_name) = {}

CreationFailed == result.args.create_collection /\ result.args.outs.create # "ok"

LibraryUnchanged == collections = before.collections /\ items = before.items

\* C6 as claimed: when the collection does not exist and create_collection
\* is false, or when it is true and the creation fails, the import returns
\* an error with papers_added = 0, has sent no mutating request and has left
\* the library unchanged.
C6_ErrorWithoutRequests ==
    (IsImport /\ ((Absent /\ ~result.args.create_collection) \/ CreationFailed)) =>
        /\ result.ret.status = "error"
        /\ result.ret.papers_added = 0
        /\ requests = <<>>
        /\ LibraryUnchanged

\* C6 as amended: in both cases the import returns an error with
\* papers_added = 0, has sent no add_item and no add_items_to_collection
\* request and has left the library unchanged; with create_collection false
\* it has sent no mutating request at all, and with a failed creation the one
\* rejected create_collection request is the only request sent.
C6_ErrorWithoutSideEffects ==
    (IsImport /\ ((Absent /\ ~result.args.create_collection) \/ CreationFailed)) =>
        /\ result.ret.status = "error"
        /\ result.ret.papers_added = 0
        /\ \A i \in 1..Len(requests) : requests[i].path # "items"
        /\ LibraryUnchanged
        /\ ~result.args.create_collection => requests = <<>>
        /\ CreationFailed =>
              /\ Len(requests) = 1
              /\ requests[1].method = "POST"
              /\ requests[1].path = "collections"
              /\ ~requests[1].accepted

C6_Witness ==
    /\ IsImport
    /\ Absent
    /\ ~result.args.create_collection
    /\ result.ret.papers_found > 0
    /\ result.ret.status = "error"
    /\ requests = <<>>

Posts == SelectSeq(requests, LAMBDA q : q.method = "POST" /\ q.path = "items")

\* C7: an import that reaches the item loop calls add_item once for every
\* found paper, in search order, whatever failed before; items_added is the
\* sequence of the keys the successful creates returned; papers_added =
\* len(items_added) <= papers_found; the result is returned with status
\* "success" also when creates failed.
C7_EveryPaperTried ==
    IsImport =>
        LET r == result.ret
            ok == SelectSeq(Posts, LAMBDA q : q.accepted)
        IN  /\ r.status \in {"success", "error"}
            /\ r.status = "success" <=> r.collection_key # 0
            /\ r.status = "error" => Posts = <<>>
            /\ r.status = "success" =>
                  /\ r.papers_found = Sum(result.args.found)
                  /\ Len(Posts) = r.papers_found
                  /\ \A i \in 1..Len(Posts) :
                        /\ Posts[i].entry = i
                        /\ Posts[i].accepted <=> result.args.outs.add[i] = "ok"
                  /\ r.items_added = [j \in 1..Len(ok) |-> Len(before.items) + j]
                  /\ r.papers_added = Len(r.items_added)
                  /\ r.papers_added <= r.papers_found

C7_Witness ==
    /\ IsImport
    /\ result.ret.status = "success"
    /\ result.ret.papers_found = 2
    /\ result.ret.papers_added = 1
    /\ result.args.outs.add[1] # "ok"

\* C8: whenever an import returns status "success", every key of items_added
\* is a member of the collection collection_key.
C8_SuccessMeansFiled ==
    (IsImport /\ result.ret.status = "success") =>
        \A i \in 1..Len(result.ret.items_added) :
            InSeq(result.ret.collection_key, items[result.ret.items_added[i]].collections)

CountOf(source_counts, source) ==
    IF source \in DOMAIN source_counts THEN source_counts[source] ELSE 0

\* C9: in the multi-source import, for every list of sources, papers_found is
\* the sum of the counts in source_counts, and every imported item is
\* recorded under the source it was found in.
C9_FoundIsSumOfCounts ==
    result.op = "search_multi_source_to_collection" =>
        LET r == result.ret
        IN  /\ r.papers_found = CountOf(r.source_counts, "pubmed")
                                 + CountOf(r.source_counts, "arxiv")
            /\ \A src \in DOMAIN r.by_source : \A i \in 1..Len(r.by_source[src]) :
                  items[r.by_source[src][i]].paper.source = src
            /\ r.status = "success" =>
                  \A i \in 1..Len(r.items_added) :
                     InSeq(r.items_added[i], r.by_source[items[r.items_added[i]].paper.source])

\* C10: fetch_team completes the batch whatever fails: a member whose fetch
\* fails (timeout, non-2xx status, malformed body) contributes an empty list,
\* nothing is raised, and every member with a token is fetched once, in
\* roster order.
C10_TeamFetchCompletes ==
    team_result.op = "fetch_team" =>
        /\ ~team_result.ret.raised
        /\ team_result.ret.fetched =
              [i \in 1..Len(team_result.fetchable) |-> team_result.fetchable[i].token]

\* The searches of the last import that met a network or HTTP failure.
FailedSearches ==
    {i \in 1..Len(result.args.searches) : result.args.searches[i] # "ok"}

WasImport ==
    \/ IsImport
    \/ result.op = "raised" /\ result.handler \in ImportOps

\* C11: a network or HTTP failure of a source's search is not thrown to the
\* caller of an import: the import returns a result, and in the multi-source
\* import the failing source is counted 0 while papers_found is the number of
\* papers the other sources returned.
C11_SearchFailureDegrades ==
    (WasImport /\ FailedSearches # {}) =>
        /\ result.op # "raised"
        /\ result.ret.papers_found = Sum(result.args.found)
        /\ result.op = "search_multi_source_to_collection" =>
              \A i \in FailedSearches :
                 CountOf(result.ret.source_counts, result.args.sources[i]) = 0

IsRead == result.op \in ReadOps

HasError == "error" \in DOMAIN result.args.tool_result

\* C12: when the tool result carries an "error" key, every read but get_item
\* returns the empty list (get_item_fulltext: the empty string) and get_item
\* returns the tool result with its "error" key; no read raises or touches
\* the library.
C12_ReadsDegradeToEmpty ==
    (IsRead /\ HasError) =>
        /\ result.op = "get_item" =>
              /\ result.ret = result.args.tool_result
              /\ "error" \in DOMAIN result.ret
        /\ result.op = "get_item_fulltext" => result.ret = ""
        /\ result.op \notin {"get_item", "get_item_fulltext"} => result.ret = <<>>
        /\ LibraryUnchanged
        /\ requests = <<>>

C12_Witness ==
    /\ result.op = "search_items"
    /\ HasError
    /\ "items" \in DOMAIN result.args.tool_result
    /\ result.ret = <<>>

Done(c, op) == callers[c].pc = "done" /\ callers[c].op = op

\* Caller c completes a set_default_library call in this step.
SetsDefault(c) ==
    /\ callers'[c] # callers[c]
    /\ callers'[c].pc = "done"
    /\ callers'[c].op = "set_default_library"

SelectorInRange ==
    router.constructed =>
        /\ router.default_library \in {"group", "personal"}
        /\ router.default_library = router.last_valid
        /\ calls = 0 => router.default_library = "group"

\* C13: the default library starts at "group", is always "group" or
\* "personal", and is the argument of the last set_default_library call with
\* a valid argument; a call with another argument raises and changes nothing.
C13_DefaultLibrarySelector ==
    /\ []SelectorInRange
    /\ [][\A c \in Callers : SetsDefault(c) =>
             IF callers'[c].arg \in {"group", "personal"}
             THEN /\ callers'[c].raised = ""
                  /\ router'.default_library = callers'[c].arg
             ELSE /\ callers'[c].raised # ""
                  /\ router'.default_library = router.default_library]_vars

C13_Witness ==
    /\ router.constructed
    /\ router.default_library = "personal"
    /\ \E c \in Callers : /\ Done(c, "set_default_library")
                          /\ callers[c].arg = "shared"
                          /\ callers[c].raised # ""
                          /\ callers[c].default_at_call = "personal"

\* The library a completed or running call is for, had it been resolved when
\* it was called.
Requested(c) == resolve_library(callers[c].arg, callers[c].default_at_call)

GotClient(c) ==
    /\ callers[c].pc = "done"
    /\ callers[c].op \in {"get_client", "search_items"}
    /\ callers[c].raised = ""

\* C14: with the router owned by one caller at a time, get_client resolves an
\* omitted library to the current default; for "group" or "personal" it
\* returns the client of that library, built from that library's id and key,
\* when the library has both, and otherwise raises naming that library; it
\* never gives the other library's client; two calls for the same library
\* get the same instance.
C14_ClientOfRequestedLibrary ==
    router.constructed =>
        /\ \A c \in Callers :
              (callers[c].pc = "done" /\ callers[c].op \in {"get_client", "search_items"}
                 /\ Requested(c) \in {"group", "personal"}) =>
                 /\ callers[c].library = Requested(c)
                 /\ IF has_credentials(router, Requested(c))
                    THEN /\ callers[c].raised = ""
                         /\ callers[c].client # NoClient
                         /\ callers[c].client.library = Requested(c)
                         /\ callers[c].client = new_client([router EXCEPT !.instances =
                                                   callers[c].client.instance - 1],
                                                           Requested(c))
                    ELSE /\ callers[c].raised = not_configured(Requested(c))
                         /\ callers[c].client = NoClient
        /\ \A c, d \in Callers :
              (GotClient(c) /\ GotClient(d) /\ callers[c].library = callers[d].library) =>
                 callers[c].client = callers[d].client

C14_Witness ==
    /\ router.constructed
    /\ ~has_credentials(router, "personal")
    /\ \E c, d \in Callers :
          /\ c # d
          /\ GotClient(c) /\ callers[c].arg = "" /\ callers[c].library = "group"
          /\ GotClient(d) /\ callers[d].arg = "group"
          /\ callers[c].client = callers[d].client

\* The id and key a slot holds are the group-specific pair, the personal
\* pair or the legacy pair of the environment.
GroupPair(env) == <<env.ZOTERO_GROUP_LIBRARY_ID, env.ZOTERO_GROUP_API_KEY>>

PersonalPair(env) == <<env.ZOTERO_PERSONAL_LIBRARY_ID, env.ZOTERO_PERSONAL_API_KEY>>

LegacyPair(env) == <<env.ZOTERO_LIBRARY_ID, env.ZOTERO_API_KEY>>

\* C15: the group slot takes the legacy id and key only when the
\* group-specific id and key are not both set; the personal slot holds the
\* personal pair only; and whenever get_library_status reports the group
\* slot configured, its id and key are one whole pair, the group-specific or
\* the legacy one.
C15_LegacyFallbackWholePair ==
    \A c \in Callers : Done(c, "get_library_status") =>
        LET env == router.env
            group == <<router.group_library_id, router.group_api_key>>
            personal == <<router.personal_library_id, router.personal_api_key>>
            status == callers[c].status
        IN  /\ (group # GroupPair(env)) =>
                  ~(env.ZOTERO_GROUP_LIBRARY_ID # "" /\ env.ZOTERO_GROUP_API_KEY # "")
            /\ personal = PersonalPair(env)
            /\ status.personal.configured <=>
                  (env.ZOTERO_PERSONAL_LIBRARY_ID # "" /\ env.ZOTERO_PERSONAL_API_KEY # "")
            /\ status.group.configured => group \in {GroupPair(env), LegacyPair(env)}

\* C16: a search_items call with an explicit library runs on the client of
\* that library (or raises because that library is not configured), whatever
\* set_default_library calls of other callers interleave with it; a call
\* that omits the library runs on the library that was the default at some
\* moment of the call.
C16_ExplicitLibraryIsolated ==
    \A c \in Callers :
       (callers[c].op = "search_items" /\ callers[c].pc \in {"executing", "done"}) =>
          /\ callers[c].arg \in {"group", "personal"} =>
                /\ callers[c].library = callers[c].arg
                /\ IF callers[c].raised = ""
                   THEN callers[c].client.library = callers[c].arg
                   ELSE /\ callers[c].raised = not_configured(callers[c].arg)
                        /\ ~has_credentials(router, callers[c].arg)
          /\ (callers[c].library # Requested(c)) =>
                /\ callers[c].arg = ""
                /\ callers[c].raced

\* An explicit call ran on its library although the default was changed to
\* the other library while it was in flight.
C16_Witness ==
    \E c \in Callers :
       /\ Done(c, "search_items")
       /\ callers[c].arg = "group"
       /\ callers[c].raised = ""
       /\ callers[c].raced
       /\ router.default_library = "personal"
       /\ callers[c].client.library = "group"

IsReadingList == result.op = "build_reading_list"

Keys(papers) == [i \in 1..Len(papers) |-> dict_get(papers[i], "key", "")]

HasYear(p) == year_digits(dict_get(p, "date", "")) # ""

\* C18: whenever a min_year is passed, 0 and negative values included, every
\* returned paper has a parseable year that is >= min_year, and no entry
\* without a parseable year is returned.
C18_MinYearDropsUndated ==
    (IsReadingList /\ result.args.min_year.passed) =>
        \A i \in 1..Len(result.ret.papers) :
           \E j \in 1..Len(result.all_papers) :
              /\ dict_get(result.all_papers[j], "key", "") = result.ret.papers[i].key
              /\ HasYear(result.all_papers[j])
              /\ to_int(year_digits(result.all_papers[j].date)) >= result.args.min_year.value

IsSmartAdd == result.op = "smart_add_paper"

ReadTools == {"zotero_search_items"}

\* C19: smart_add_paper with a DOI that fails normalization returns status
\* "error" and has called no tool; for every input it calls only the search
\* tool, sends no request of the write API and leaves the library as it was.
C19_InvalidDoiNoSearchNoWrite ==
    IsSmartAdd =>
        /\ normalize_doi(result.args.doi) = "" =>
              /\ result.ret.status = "error"
              /\ result.tool_calls = <<>>
        /\ \A i \in 1..Len(result.tool_calls) : result.tool_calls[i] \in ReadTools
        /\ requests = <<>>
        /\ LibraryUnchanged

C19_Witness ==
    /\ IsSmartAdd
    /\ result.args.doi.body = "invalid-doi"
    /\ result.args.check_duplicates
    /\ result.args.reply.kind = "json"
    /\ result.args.reply.value.items # <<>>
    /\ result.ret.status = "error"
    /\ result.tool_calls = <<>>

\* Two DOIs that differ at most in the case of their letters.
SameIgnoringCase(a, b) ==
    \/ a = b
    \/ {a, b} = {"10.1234/test", "10.1234/TEST"}

\* The first five results the search tool gave.
FirstFive ==
    IF result.args.reply.kind = "json"
    THEN Take(result.args.reply.value.items, 5) ELSE <<>>

\* The results among them whose DOI is, normalized, the input DOI.
Matching ==
    {i \in 1..Len(FirstFive) :
       /\ extract_doi(FirstFive[i]) # ""
       /\ SameIgnoringCase(extract_doi(FirstFive[i]), normalize_doi(result.args.doi))}

C21_NormalizeDoiIdempotent ==
    (result.op = "normalize_doi" /\ result.ret # NoText) =>
        normalize_doi_text(result.ret) = result.ret

\* Paper equality of the data model: equal normalized DOIs when both records
\* carry one, the same title key when the DOI is absent on either.
paper_equal(p, q) ==
    IF p.doi # "" /\ q.doi # "" THEN doi_key(p.doi) = doi_key(q.doi)
    ELSE title_key(p.title) = title_key(q.title)

\* The records kept when a record is removed exactly if an earlier kept
\* record is paper-equal to it.
RECURSIVE kept_by_equality(_, _)
kept_by_equality(kept, publications) ==
    IF publications = <<>> THEN kept
    ELSE LET pub == Head(publications)
         IN  kept_by_equality(IF \E i \in 1..Len(kept) : paper_equal(kept[i], pub)
                              THEN kept ELSE Append(kept, pub),
                              Tail(publications))

TeamFetched == team_result.op = "fetch_team" /\ ~team_result.ret.raised

\* C22: fetch_team removes a record exactly if an earlier kept record is
\* paper-equal to it: equal normalized DOIs, or the same title key when the
\* DOI is absent on either; two records carrying different DOIs are both kept
\* whatever their titles.
C22_DedupFollowsPaperEquality ==
    TeamFetched =>
        team_result.ret.publications = kept_by_equality(<<>>, team_result.ret.all_pubs)

\* `kept` is `all` with some records left out, the order unchanged.
RECURSIVE is_subsequence(_, _)
is_subsequence(kept, all) ==
    \/ kept = <<>>
    \/ /\ all # <<>>
       /\ IF Head(kept) = Head(all) THEN is_subsequence(Tail(kept), Tail(all))
          ELSE is_subsequence(kept, Tail(all))

same_doi(p, q) == p.doi # "" /\ q.doi # "" /\ doi_key(p.doi) = doi_key(q.doi)

same_title(p, q) == title_key(p.title) # "" /\ title_key(p.title) = title_key(q.title)

\* C29: _deduplicate is a stable, idempotent filter: its output is a
\* subsequence of its input; a record that shares its DOI and its title key
\* with no earlier record of the input is kept and every removed record has
\* an earlier record sharing one of the two; no two records of the
\* output have the same lower-cased DOI or the same non-empty title key; and
\* _deduplicate of the output is the output.
C29_DedupStableIdempotent ==
    TeamFetched =>
        LET all == team_result.ret.all_pubs
            out == team_result.ret.publications
        IN  /\ out = deduplicate(all)
            /\ is_subsequence(out, all)
            /\ all # <<>> => (out # <<>> /\ Head(out) = Head(all))
            /\ \A j \in 1..Len(all) :
                  (\A i \in 1..(j - 1) : ~same_doi(all[i], all[j]) /\ ~same_title(all[i], all[j]))
                     => \E k \in 1..Len(out) : out[k] = all[j]
            /\ \A i, j \in 1..Len(out) :
                  i # j => ~same_doi(out[i], out[j]) /\ ~same_title(out[i], out[j])
            /\ deduplicate(out) = out

\* Three records were fetched, the second repeats the title key of the first
\* and the third the DOI of the second: one record is kept.
C29_Witness ==
    /\ TeamFetched
    /\ Len(team_result.ret.all_pubs) = 3
    /\ Len(team_result.ret.publications) = 1
    /\ same_title(team_result.ret.all_pubs[1], team_result.ret.all_pubs[2])
    /\ ~same_title(team_result.ret.all_pubs[1], team_result.ret.all_pubs[3])
    /\ same_doi(team_result.ret.all_pubs[2], team_result.ret.all_pubs[3])

IsExport == result.op = "export_bibliography"

\* C23: export_bibliography with neither a collection name nor a tag returns
\* an error and calls no tool of the library (no collection listing, no
\* collection items, no tag search).
C23_NoSelectorNoRemoteCall ==
    (IsExport /\ result.args.collection_name = "" /\ result.args.tag = "") =>
        /\ result.ret.status = "error"
        /\ result.tool_calls = <<>>

C23_Witness ==
    /\ IsExport
    /\ result.args.collection_name = ""
    /\ result.args.tag = ""
    /\ result.args.format = "bibtex"
    /\ result.args.list_reply.kind = "json"
    /\ result.args.list_reply.value.collections # <<>>
    /\ result.ret.status = "error"

\* C24: export_bibliography with a format other than "bibtex" returns an
\* error whatever the library holds, and has called no tool of the library.
C24_UnsupportedFormatBeforeCalls ==
    (IsExport /\ result.args.format # "bibtex") =>
        /\ result.ret.status = "error"
        /\ result.tool_calls = <<>>

\* A later successful remove of the same membership by another caller.
RemovedLater(w) ==
    \E r \in Writers \ {w} :
       /\ writers[r].pc = "done"
       /\ writers[r].op = "remove"
       /\ writers[r].status = "success"
       /\ writers[r].written
       /\ writers[r].item_key = writers[w].item_key
       /\ writers[r].collection_key = writers[w].collection_key
       /\ writers[r].written_at > writers[w].written_at

\* C27: no lost update: when callers add to or remove from the membership of
\* the same item at the same time, every caller whose result says "added"
\* has its collection in the membership of the item, unless a later
\* successful remove took it out.
C27_NoLostMembershipUpdate ==
    \A w \in Writers :
       (writers[w].pc = "done" /\ writers[w].op = "add" /\ writers[w].status = "added") =>
           \/ InSeq(writers[w].collection_key, items[writers[w].item_key].collections)
           \/ RemovedLater(w)

\* Two callers read the same version of the item; the first is told "added",
\* the write of the second is rejected, and the membership is the first's.
C27_Witness ==
    \E w, v \in Writers :
       /\ w # v
       /\ writers[w].pc = "done" /\ writers[v].pc = "done"
       /\ writers[w].op = "add" /\ writers[v].op = "add"
       /\ writers[w].item_key = writers[v].item_key
       /\ writers[w].collection_key # writers[v].collection_key
       /\ writers[w].read_version = writers[v].read_version
       /\ writers[w].status = "added"
       /\ writers[v].status = "error"
       /\ InSeq(writers[w].collection_key, items[writers[w].item_key].collections)
       /\ ~InSeq(writers[v].collection_key, items[writers[v].item_key].collections)

\* C25: discover_tokens walks the co-author graph breadth-first: every token
\* it discovered for a roster member is scanned in the same run (its
\* co-authors and its publications are fetched), and no token is fetched
\* more than once per kind of fetch.
C25_DiscoveredTokensAreScanned ==
    discovery.pc = "done" =>
        /\ \A i \in 1..Len(discovery.found) :
              /\ InSeq(discovery.found[i].token, discovery.coauthor_fetches)
              /\ InSeq(discovery.found[i].token, discovery.publication_fetches)
        /\ NoRepeats(discovery.coauthor_fetches)
        /\ NoRepeats(discovery.publication_fetches)

DiscoveryStarted == discovery.pc # "idle"

\* The fetches are bounded by the tokens to scan, configured tokens are
\* kept, only roster surnames get a token, and the token of a discovered
\* surname is the first one that was seen for it.
DiscoveryBounded ==
    DiscoveryStarted =>
        /\ Len(discovery.coauthor_fetches) <= Len(discovery.tokens_to_scan)
        /\ Len(discovery.publication_fetches) <= Len(discovery.coauthor_fetches)
        /\ \A m \in Members : m.token # 0 => discovery.discovered[m.surname] = m.token
        /\ \A s \in Surnames : discovery.discovered[s] # 0 => s \in team_surnames
        /\ \A i \in 1..Len(discovery.found) :
              /\ discovery.discovered[discovery.found[i].surname] = discovery.found[i].token
              /\ known_tokens[discovery.found[i].surname] = 0
              /\ \A j \in 1..Len(discovery.found) :
                    i # j => discovery.found[i].surname # discovery.found[j].surname

\* C30: discover_tokens ends on every co-author graph, cycles and mutual
\* co-authorship included, after at most one fetch of each kind per token to
\* scan; its result keeps every configured token, gives a surname the first
\* token discovered for it, and holds roster surnames only.
C30_DiscoveryTerminates ==
    /\ []DiscoveryBounded
    /\ (discovery.pc = "scanning") ~> (discovery.pc \in {"done", "raised"})

\* The run from another seed ended after three scans: Chahabadi was found
\* among the co-authors, and Thun, listed there under another token, kept
\* the configured one.
C30_Witness ==
    /\ discovery.pc = "done"
    /\ discovery.seed_token = 7
    /\ Len(discovery.coauthor_fetches) = 3
    /\ discovery.discovered["Chahabadi"] = 3
    /\ discovery.discovered["Thun"] = 1
    /\ discovery.discovered["Mueller"] = 0
    /\ Len(discovery.found) = 1

\* C26: a GET request to a declared path is handled by the handler declared
\* for that path and by no other: /api/papers/semantic-search by
\* semantic_search, /api/papers/advanced-search by advanced_search,
\* /api/papers/recent by get_recent_papers, and so on for every route.
C26_DeclaredPathOwnHandler ==
    result.op = "http_get" =>
        \A r \in 1..Len(Routes) :
           Routes[r].path = result.args.path => result.ret.handler = Routes[r].handler

\* The number of collections of the library that carry the name.
NamedCount(colls, name) == Cardinality({i \in 1..Len(colls) : colls[i].name = name})

\* C28: the list-then-create of an import resolves the name to one
\* collection: when the library held at most one collection of the name
\* before an import with create_collection, it holds at most one after it,
\* also when list_collections failed and gave [].
C28_OneCollectionPerName ==
    (IsImport /\ result.args.create_collection
        /\ NamedCount(before.collections, result.args.collection_name) <= 1) =>
        NamedCount(collections, result.args.collection_name) <= 1

====
